---- MODULE Spec2Model ----
(***************************************************************************)
(* AegisRedact: the document redaction pipeline.                           *)
(*                                                                         *)
(*  - PlainTextFormat (src/src/lib/formats/base/types.ts) and the          *)
(*    TextViewer that holds its Document                                   *)
(*  - CsvFormat (src/unnamed/part_005)                                     *)
(*  - PDF export (src/src/lib/pdf/export.ts) and the pixel-to-PDF          *)
(*    coordinate conversion (src/unnamed/part_009)                         *)
(*  - the background detection pass of the application shell               *)
(*  - payment card detection (src/src/ui/components/Toolbar.ts)            *)
(*  - FormatRegistry (src/unnamed/part_006)                                *)
(*  - TaskQueue (src/src/lib/queue/TaskQueue.ts)                           *)
(*  - CustomPatternRegistry (src/src/lib/detect/custom/registry.ts) and    *)
(*    PatternValidator (src/unnamed/part_004)                              *)
(*  - DocumentFormat.mergeOverlappingBoxes                                 *)
(*                                                                         *)
(* Strings are sequences of characters, indices are 0-based as in the      *)
(* source and converted at the SubSeq calls.                               *)
(***************************************************************************)
EXTENDS Integers, Sequences, FiniteSets, TLC

VARIABLES
    doc,        \* the Document of the format handler, or NoDoc
    viewerDoc,  \* TextViewer.currentDoc is set
    terms,      \* argument of the last findTextBoxes
    found,      \* result of the last findTextBoxes
    lastBoxes,  \* argument of the last redact
    preContent, \* content.lines / content.data before the last redact
    passed,     \* every box passed to redact so far, in call order
    exported,   \* text of the last exported Blob, or NoBlob
    stage,      \* last operation on the document
    nRedact,    \* number of redact calls so far
    err,        \* error thrown by the last operation, or "none"
    call,       \* the last call of the PDF library: function, arguments, result
    app,        \* the application shell: current document, generation, detection passes
    registry,   \* FormatRegistry: the registered factories, the initialized flag
    queue,      \* TaskQueue: tasks, flags, processor invocations in flight, timers
    patterns    \* CustomPatternRegistry: the patterns held, localStorage, last result

docVars == <<doc, viewerDoc, terms, found, lastBoxes, preContent, passed, exported, stage, nRedact, err>>

pdfVars == <<call>>

appVars == <<app>>

libVars == <<registry, queue, patterns>>

vars == <<docVars, pdfVars, appVars, libVars>>

nonDocVars == <<pdfVars, appVars, libVars>>
nonPdfVars == <<docVars, appVars, libVars>>
nonAppVars == <<docVars, pdfVars, libVars>>
\* what the operations of the format registry, which record their result in
\* call, of the queue and of the pattern registry leave alone
nonRegistryVars == <<docVars, appVars, queue, patterns>>
nonQueueVars == <<docVars, pdfVars, appVars, registry, patterns>>
nonPatternVars == <<docVars, pdfVars, appVars, registry, queue>>

----------------------------------------------------------------------------
(* Bounds *)

MaxTextLen == 3
MaxTermLen == 2
MaxTerms == 1
MaxRedacts == 2
MaxCsvRedacts == 1
MaxRows == 2
MaxCols == 2
MaxCellLen == 21
MaxPages == 2
MaxBoxesPerPage == 1
MaxQuoteCellLen == 2
MaxQuoteCols == 2
MaxQuoteRows == 2
MaxSanitizePages == 2
MaxRegexResults == 2
MaxMlResults == 2
MaxGroup == 4
MaxEnqueues == 3
MaxTimers == 2
MaxRegexLen == 2
MaxPatterns == 2
MaxBoxX == 2
MaxMergeBoxes == 3
MaxLoads == 4

----------------------------------------------------------------------------
(* Characters and JavaScript string primitives *)

NL == "NL"
redactionChar == "BLK"
\* "Idot" is U+0130, whose lower case is the two code units "i" U+0307
Chars == {"a", "A", "b", NL, "Idot"}

NoDoc == [format |-> "none"]
NoBlob == <<"NoBlob">>

Min(a, b) == IF a < b THEN a ELSE b
Max(a, b) == IF a > b THEN a ELSE b

MinOf(S) == CHOOSE x \in S : \A y \in S : x <= y

RECURSIVE FlattenSeq(_)
FlattenSeq(ss) == IF ss = <<>> THEN <<>> ELSE Head(ss) \o FlattenSeq(Tail(ss))

RECURSIVE SetToSortedSeq(_)
SetToSortedSeq(S) ==
    IF S = {} THEN <<>>
    ELSE LET m == MinOf(S) IN <<m>> \o SetToSortedSeq(S \ {m})

SeqsUpTo(S, n) == UNION {[1..k -> S] : k \in 0..n}

\* String.prototype.substring(start, end): clamps both to [0, length], swaps
Substring(s, i, j) ==
    LET a == Max(0, Min(i, Len(s)))
        b == Max(0, Min(j, Len(s)))
    IN  SubSeq(s, Min(a, b) + 1, Max(a, b))

SubstringFrom(s, i) == Substring(s, i, Len(s))

LowerChar(c) ==
    CASE c = "A" -> <<"a">>
      [] c = "M" -> <<"m">>
      [] c = "D" -> <<"d">>
      [] c = "Idot" -> <<"i", "dot">>
      [] OTHER -> <<c>>

\* String.prototype.toLowerCase
ToLowerCase(s) == FlattenSeq([k \in 1..Len(s) |-> LowerChar(s[k])])

\* String.prototype.indexOf(t, from): -1 when absent
IndexOf(s, t, from) ==
    LET start == Max(0, from)
        cands == {i \in start..(Len(s) - Len(t)) : SubSeq(s, i + 1, i + Len(t)) = t}
    IN  IF Len(t) = 0 THEN Min(start, Len(s))
        ELSE IF cands = {} THEN -1 ELSE MinOf(cands)

Includes(s, t) == IndexOf(s, t, 0) >= 0

IsWhitespace(c) == c = NL

\* String.prototype.trim
RECURSIVE TrimStart(_)
TrimStart(s) == IF s # <<>> /\ IsWhitespace(Head(s)) THEN TrimStart(Tail(s)) ELSE s

RECURSIVE TrimEnd(_)
TrimEnd(s) ==
    IF s # <<>> /\ IsWhitespace(s[Len(s)]) THEN TrimEnd(SubSeq(s, 1, Len(s) - 1)) ELSE s

Trim(s) == TrimEnd(TrimStart(s))

\* String.prototype.repeat
Repeat(c, n) == [k \in 1..n |-> c]

\* String.prototype.split('\n')
RECURSIVE Split(_)
Split(s) ==
    LET i == IndexOf(s, <<NL>>, 0)
    IN  IF i = -1 THEN <<s>>
        ELSE <<Substring(s, 0, i)>> \o Split(SubstringFrom(s, i + 1))

\* Array.prototype.join('\n')
RECURSIVE Join(_)
Join(ls) ==
    IF ls = <<>> THEN <<>>
    ELSE IF Len(ls) = 1 THEN ls[1]
    ELSE ls[1] \o <<NL>> \o Join(Tail(ls))

----------------------------------------------------------------------------
(* PlainTextFormat *)

charWidth == 8
lineHeight == 22

\* load(file)
PlainTextLoad(text) ==
    [format |-> "txt",
     content |-> [fullText |-> text, lines |-> Split(text)],
     boxes |-> <<>>,
     rendered |-> FALSE,
     modified |-> FALSE]

\* the occurrences of one term in one line: startIndex = index + 1 after a hit
LineOccurrences(line, term) ==
    LET lowerLine == ToLowerCase(line)
        lowerTerm == ToLowerCase(term)
    IN  SetToSortedSeq({i \in 0..Len(lowerLine) : IndexOf(lowerLine, lowerTerm, i) = i})

TextBox(line, lineIndex, term, index) ==
    [x |-> index * charWidth,
     y |-> lineIndex * lineHeight,
     w |-> Len(term) * charWidth,
     h |-> lineHeight,
     text |-> Substring(line, index, index + Len(term)),
     line |-> lineIndex,
     source |-> "regex"]

TermBoxes(lines, term) ==
    IF term = <<>> \/ Len(Trim(term)) = 0 THEN <<>>
    ELSE FlattenSeq([l \in 1..Len(lines) |->
            LET occ == LineOccurrences(lines[l], term)
            IN  [k \in 1..Len(occ) |-> TextBox(lines[l], l - 1, term, occ[k])]])

\* findTextBoxes(doc, terms)
findTextBoxes(d, ts) ==
    FlattenSeq([t \in 1..Len(ts) |-> TermBoxes(d.content.lines, ts[t])])

\* Array.prototype.sort((a, b) => bStart - aStart): stable, descending by start
RECURSIVE InsertByStart(_, _, _)
InsertByStart(sorted, b, line) ==
    LET start(bx) == IndexOf(ToLowerCase(line), ToLowerCase(bx.text), 0)
    IN  IF sorted = <<>> THEN <<b>>
        ELSE IF start(Head(sorted)) >= start(b)
             THEN <<Head(sorted)>> \o InsertByStart(Tail(sorted), b, line)
             ELSE <<b>> \o sorted

RECURSIVE SortByStart(_, _, _)
SortByStart(acc, bs, line) ==
    IF bs = <<>> THEN acc
    ELSE SortByStart(InsertByStart(acc, Head(bs), line), Tail(bs), line)

\* one pass of the "Apply redactions" loop body
ApplyBox(line, box) ==
    LET index == IndexOf(ToLowerCase(line), ToLowerCase(box.text), 0)
    IN  IF index >= 0
        THEN Substring(line, 0, index) \o Repeat(redactionChar, Len(box.text))
                \o SubstringFrom(line, index + Len(box.text))
        ELSE line

RECURSIVE ApplyBoxes(_, _)
ApplyBoxes(line, bs) ==
    IF bs = <<>> THEN line ELSE ApplyBoxes(ApplyBox(line, Head(bs)), Tail(bs))

RedactLine(line, lineBoxes) == ApplyBoxes(line, SortByStart(<<>>, lineBoxes, line))

\* redact(doc, boxes)
PlainTextRedact(d, boxes) ==
    LET boxesByLine(l) == SelectSeq(boxes, LAMBDA b : b.line = l)
        newLines == [l \in 1..Len(d.content.lines) |->
                        IF boxesByLine(l - 1) = <<>> THEN d.content.lines[l]
                        ELSE RedactLine(d.content.lines[l], boxesByLine(l - 1))]
    IN  [d EXCEPT !.content = [fullText |-> Join(newLines), lines |-> newLines],
                  !.boxes = d.boxes \o boxes,
                  !.modified = TRUE]

\* export(doc): the text of the Blob
PlainTextExport(d) == d.content.fullText

----------------------------------------------------------------------------
(* Inputs *)

Texts == SeqsUpTo(Chars, MaxTextLen)
\* search terms: lower case, upper case and whitespace
TermChars == {"a", "A", NL}
Terms == SeqsUpTo(TermChars, MaxTermLen)
TermLists == SeqsUpTo(Terms, MaxTerms)

\* subsequences of the found boxes
SubSeqsOf(bs) ==
    {SelectSeq([k \in 1..Len(bs) |-> <<k, bs[k]>>], LAMBDA p : p[1] \in S) :
        S \in SUBSET (1..Len(bs))}

\* the boxes a caller keeps enabled: all of the found boxes, none, or one
Enabled(bs) ==
    {[k \in 1..Len(q) |-> q[k][2]] :
        q \in {r \in SubSeqsOf(bs) : Len(r) \in {0, 1, Len(bs)}}}

----------------------------------------------------------------------------
(* Plain-text documents: actions *)

InitDoc ==
    /\ doc = NoDoc
    /\ viewerDoc = FALSE
    /\ terms = <<>>
    /\ found = <<>>
    /\ lastBoxes = <<>>
    /\ preContent = <<>>
    /\ passed = <<>>
    /\ exported = NoBlob
    /\ stage = "none"
    /\ nRedact = 0
    /\ err = "none"

NoCall == [fn |-> "none"]
NoFile == 0

\* the application shell before any file is loaded
AppIdle == [generation |-> 0, file |-> NoFile, detections |-> {}, passes |-> {}, discarded |-> 0]

\* FormatRegistry.formats = new Map(), initialized = false
NoRegistrations == [formats |-> <<>>, initialized |-> FALSE]

\* new TaskQueue(config): maxConcurrent and autoStart default to 1 and true
DefaultConfig == [maxConcurrent |-> 1, autoStart |-> TRUE]

NewTaskQueue(config) ==
    [tasks |-> <<>>, processor |-> FALSE, isProcessing |-> FALSE,
     isPaused |-> FALSE, maxConcurrent |-> config.maxConcurrent,
     autoStart |-> config.autoStart,
     nextId |-> 1,      \* the ids crypto.randomUUID() has not handed out yet
     running |-> {},    \* ids of the tasks whose processor promise is pending
     timers |-> 0,      \* setTimeout(() => this.processNext(), 100) not yet run
     op |-> "new",      \* the last operation
     fired |-> {}]      \* the callbacks the last operation invoked

\* localStorage.getItem(storageKey): null, or the stored array
NoItem == [present |-> FALSE, items |-> <<>>]
Item(items) == [present |-> TRUE, items |-> items]

\* the singleton new CustomPatternRegistry() on an empty localStorage
NoPatterns ==
    [held |-> <<>>,        \* this.patterns, in insertion order
     stored |-> NoItem,    \* the array under 'aegis-custom-patterns'
     nextId |-> 1,         \* the ids crypto.randomUUID() has not handed out yet
     op |-> "new",         \* the last operation
     error |-> "none"]     \* the message of the Error it threw

InitLib ==
    /\ registry = NoRegistrations
    /\ queue = NewTaskQueue(DefaultConfig)
    /\ patterns = NoPatterns

InitText == InitDoc /\ call = NoCall /\ app = AppIdle /\ InitLib

PlainTextFormat_load ==
    /\ stage = "none"
    /\ \E text \in Texts : doc' = PlainTextLoad(text)
    /\ stage' = "loaded"
    /\ UNCHANGED <<viewerDoc, terms, found, lastBoxes, preContent, passed, exported, nRedact, err>>
    /\ UNCHANGED nonDocVars

\* the detection pass of a loaded document
PlainTextFormat_findTextBoxes ==
    /\ stage = "loaded"
    /\ \E ts \in TermLists :
          /\ terms' = ts
          /\ found' = findTextBoxes(doc, ts)
    /\ stage' = "found"
    /\ UNCHANGED <<doc, viewerDoc, lastBoxes, preContent, passed, exported, nRedact, err>>
    /\ UNCHANGED nonDocVars

PlainTextFormat_redact ==
    /\ stage \in {"found", "redacted", "redactedAll"}
    /\ nRedact < MaxRedacts
    /\ \E boxes \in Enabled(found) :
          /\ doc' = PlainTextRedact(doc, boxes)
          /\ lastBoxes' = boxes
          /\ passed' = passed \o boxes
          /\ stage' = IF stage = "found" /\ boxes = found THEN "redactedAll" ELSE "redacted"
    /\ preContent' = doc.content.lines
    /\ exported' = NoBlob
    /\ nRedact' = nRedact + 1
    /\ UNCHANGED <<viewerDoc, terms, found, err>>
    /\ UNCHANGED nonDocVars

\* an export that also marks the document as saved
PlainTextFormat_exportMarkingClean ==
    /\ stage \in {"redacted", "redactedAll"}
    /\ exported' = PlainTextExport(doc)
    /\ doc' = [doc EXCEPT !.modified = FALSE]
    /\ UNCHANGED <<viewerDoc, terms, found, lastBoxes, preContent, passed, stage, nRedact, err>>
    /\ UNCHANGED nonDocVars

PlainTextFormat_export ==
    /\ stage \in {"redacted", "redactedAll"}
    /\ exported' = PlainTextExport(doc)
    /\ UNCHANGED <<doc, viewerDoc, terms, found, lastBoxes, preContent, passed, stage, nRedact, err>>
    /\ UNCHANGED nonDocVars

\* renderDocument(doc, format): keeps the document, format.render marks it rendered
TextViewer_renderDocument ==
    /\ stage = "loaded"
    /\ viewerDoc = FALSE
    /\ viewerDoc' = TRUE
    /\ doc' = [doc EXCEPT !.rendered = TRUE]
    /\ UNCHANGED <<terms, found, lastBoxes, preContent, passed, exported, stage, nRedact, err>>
    /\ UNCHANGED nonDocVars

\* setBoxes(boxes)
TextViewer_setBoxes ==
    /\ viewerDoc
    /\ stage \in {"redacted", "redactedAll"}
    /\ \E boxes \in Enabled(found) : doc' = [doc EXCEPT !.boxes = boxes]
    /\ UNCHANGED <<viewerDoc, terms, found, lastBoxes, preContent, passed, exported, stage, nRedact, err>>
    /\ UNCHANGED nonDocVars

NextText ==
    \/ PlainTextFormat_load
    \/ PlainTextFormat_findTextBoxes
    \/ PlainTextFormat_redact
    \/ PlainTextFormat_export
    \/ TextViewer_renderDocument
    \/ TextViewer_setBoxes

SpecText == InitText /\ [][NextText]_vars

----------------------------------------------------------------------------
(* Plain-text documents: properties *)

Range(q) == {q[k] : k \in 1..Len(q)}

\* q is p with elements left out, order kept
RECURSIVE IsSubsequence(_, _)
IsSubsequence(p, q) ==
    IF p = <<>> THEN TRUE
    ELSE IF q = <<>> THEN FALSE
    ELSE IF Head(p) = Head(q) THEN IsSubsequence(Tail(p), Tail(q))
    ELSE IsSubsequence(p, Tail(q))

\* a term findTextBoxes searches for: not whitespace-only, within one line
Searchable(term) == Len(Trim(term)) > 0 /\ ~Includes(term, <<NL>>)

\* C3: after redact(doc, findTextBoxes(doc, terms)) the exported text contains
\* no occurrence, ignoring case, of any non-empty term (stated here for the
\* terms that lie within one line and are not whitespace-only).
C3_ExportHasNoTerm ==
    (stage = "redactedAll" /\ exported # NoBlob) =>
        \A k \in 1..Len(terms) :
            Searchable(terms[k]) =>
                ~Includes(ToLowerCase(exported), ToLowerCase(terms[k]))

\* character positions of line l covered by the boxes of the last redact
Covered(l) ==
    {p \in 0..(Len(preContent[l + 1]) - 1) :
        \E b \in Range(lastBoxes) :
            /\ b.line = l
            /\ b.x <= p * charWidth
            /\ p * charWidth < b.x + b.w}

\* C4: redact replaces exactly the matched substrings: covered positions hold
\* a block character, the others are unchanged, and the number of lines and
\* the length of every line are preserved.
C4_RedactExactlyCovered ==
    (stage \in {"redacted", "redactedAll"} /\ nRedact = 1) =>
        /\ Len(doc.content.lines) = Len(preContent)
        /\ \A l \in 1..Len(preContent) :
              /\ Len(doc.content.lines[l]) = Len(preContent[l])
              /\ \A p \in 0..(Len(preContent[l]) - 1) :
                    doc.content.lines[l][p + 1] =
                        IF p \in Covered(l - 1) THEN redactionChar ELSE preContent[l][p + 1]

\* C7: doc.boxes holds every box passed to redact so far, in call order, and
\* doc.modified is set once a redact has run.
C7_BoxesAppendOnly ==
    doc # NoDoc =>
        /\ IsSubsequence(passed, doc.boxes)
        /\ nRedact > 0 => doc.modified

----------------------------------------------------------------------------
(* CsvFormat *)

SP == " "
Digits == {"7"}
MinRedactionLen == 3
MaxRedactionLen == 20

RECURSIVE JoinWith(_, _)
JoinWith(ss, sep) ==
    IF ss = <<>> THEN <<>>
    ELSE IF Len(ss) = 1 THEN ss[1]
    ELSE ss[1] \o sep \o JoinWith(Tail(ss), sep)

RECURSIVE SumLen(_)
SumLen(row) == IF row = <<>> THEN 0 ELSE Len(Head(row)) + SumLen(Tail(row))

\* /^\d+$/.test(cell.trim())
IsNumeric(cell) ==
    LET t == Trim(cell) IN t # <<>> /\ \A k \in 1..Len(t) : t[k] \in Digits

\* detectHeaders(data); an average over an empty row is NaN and compares false
detectHeaders(data) ==
    IF Len(data) < 2 THEN FALSE
    ELSE LET firstRow == data[1]
             secondRow == data[2]
             numeric(row) == Cardinality({k \in 1..Len(row) : IsNumeric(row[k])})
         IN  \/ /\ Len(firstRow) > 0
                /\ Len(secondRow) > 0
                /\ 10 * SumLen(firstRow) * Len(secondRow)
                       < 7 * SumLen(secondRow) * Len(firstRow)
             \/ numeric(firstRow) = 0 /\ numeric(secondRow) > 0

CsvFullText(data) ==
    JoinWith([r \in 1..Len(data) |-> JoinWith(data[r], <<SP>>)], <<NL>>)

\* load(file), from the rows Papa.parse returns
CsvLoad(data, delimiter) ==
    [format |-> "csv",
     content |-> [data |-> data,
                  headers |-> IF detectHeaders(data) /\ Len(data) > 0 THEN data[1] ELSE <<>>,
                  hasHeaders |-> detectHeaders(data),
                  delimiter |-> delimiter,
                  fullText |-> CsvFullText(data)],
     boxes |-> <<>>,
     rendered |-> FALSE,
     modified |-> FALSE]

CellBox(cell, rowIndex, colIndex) ==
    [x |-> colIndex * 100, y |-> rowIndex * 30, w |-> 100, h |-> 30,
     text |-> cell, row |-> rowIndex, column |-> colIndex, source |-> "regex"]

\* findTextBoxes(doc, terms): one box per (cell, matching term), row-major
CsvFindTextBoxes(d, ts) ==
    LET data == d.content.data
        cellBoxes(r, c) ==
            FlattenSeq([t \in 1..Len(ts) |->
                IF ts[t] = <<>> \/ Len(Trim(ts[t])) = 0 THEN <<>>
                ELSE IF Includes(ToLowerCase(data[r][c]), ToLowerCase(ts[t]))
                     THEN <<CellBox(data[r][c], r - 1, c - 1)>>
                     ELSE <<>>])
    IN  FlattenSeq([r \in 1..Len(data) |->
            FlattenSeq([c \in 1..Len(data[r]) |-> cellBoxes(r, c)])])

\* the lower limit of 3 forgotten
RedactionLengthNoFloor(originalLength) == Min(originalLength, MaxRedactionLen)

\* Math.max(3, Math.min(originalLength, 20))
RedactionLength(originalLength) ==
    Max(MinRedactionLen, Min(originalLength, MaxRedactionLen))

\* cells keyed by row only: every cell of a row that holds a box
CellsToRedactWholeRow(boxes) == {<<b.row, c>> : b \in Range(boxes), c \in 0..MaxCols}

\* the keys of cellsToRedact
CellsToRedact(boxes) == {<<b.row, b.column>> : b \in Range(boxes)}

\* redact(doc, boxes); content.headers is the array data[0] itself when the
\* document has headers, so a redacted header cell shows in both
CsvRedact(d, boxes) ==
    LET data == d.content.data
        cells == CellsToRedact(boxes)
        newData == [r \in 1..Len(data) |-> [c \in 1..Len(data[r]) |->
                      IF <<r - 1, c - 1>> \in cells
                      THEN Repeat(redactionChar, RedactionLength(Len(data[r][c])))
                      ELSE data[r][c]]]
    IN  [d EXCEPT !.content.data = newData,
                  !.content.headers =
                      IF d.content.hasHeaders /\ Len(data) > 0
                      THEN newData[1] ELSE d.content.headers,
                  !.content.fullText = CsvFullText(newData),
                  !.boxes = d.boxes \o boxes,
                  !.modified = TRUE]

NoColumn == -1

\* a lookup that compares the header names exactly
getColumnIndexCaseSensitive(d, columnName) ==
    LET hs == d.content.headers
        hits == {k \in 1..Len(hs) : hs[k] = columnName}
    IN  IF ~d.content.hasHeaders THEN NoColumn
        ELSE IF hits = {} THEN NoColumn ELSE MinOf(hits) - 1

\* getColumnIndex(doc, columnName): NoColumn stands for null
getColumnIndex(d, columnName) ==
    LET hs == d.content.headers
        hits == {k \in 1..Len(hs) : ToLowerCase(hs[k]) = ToLowerCase(columnName)}
    IN  IF ~d.content.hasHeaders THEN NoColumn
        ELSE IF hits = {} THEN NoColumn ELSE MinOf(hits) - 1

\* the boxes redactColumn creates for column columnIndex
ColumnBoxes(d, columnIndex) ==
    LET data == d.content.data
        startRow == IF d.content.hasHeaders THEN 1 ELSE 0
        rows == SetToSortedSeq({r \in startRow..(Len(data) - 1) : columnIndex < Len(data[r + 1])})
    IN  [k \in 1..Len(rows) |->
            [x |-> 0, y |-> 0, w |-> 0, h |-> 0,
             text |-> data[rows[k] + 1][columnIndex + 1],
             row |-> rows[k], column |-> columnIndex, source |-> "manual"]]

\* redactColumn(doc, columnIdentifier) with a number
redactColumnByIndex(d, columnIndex) ==
    [ok |-> TRUE, value |-> CsvRedact(d, ColumnBoxes(d, columnIndex))]

\* redactColumn(doc, columnIdentifier) with a string
redactColumnByName(d, columnName) ==
    LET index == getColumnIndex(d, columnName)
    IN  IF index = NoColumn
        THEN [ok |-> FALSE, error |-> <<"Column not found", columnName>>]
        ELSE redactColumnByIndex(d, index)

Quote == "QUOTE"

RECURSIVE EscapeQuotes(_)
EscapeQuotes(f) ==
    IF f = <<>> THEN <<>>
    ELSE (IF Head(f) = Quote THEN <<Quote, Quote>> ELSE <<Head(f)>>) \o EscapeQuotes(Tail(f))

\* a writer that quotes no field
UnparseUnquoted(data, delimiter) ==
    JoinWith([r \in 1..Len(data) |-> JoinWith(data[r], <<delimiter>>)], <<NL>>)

\* Papa.unparse(data, {quotes: true, quoteChar: '"', escapeChar: '"', newline: '\n'})
Unparse(data, delimiter) ==
    JoinWith([r \in 1..Len(data) |->
                JoinWith([c \in 1..Len(data[r]) |->
                            <<Quote>> \o EscapeQuotes(data[r][c]) \o <<Quote>>],
                         <<delimiter>>)],
             <<NL>>)

\* export(doc): the text of the Blob
CsvExport(d) == Unparse(d.content.data, d.content.delimiter)

\* Papa.parse(text, {delimiter, skipEmptyLines: false, quoteChar: '"',
\* escapeChar: '"'}) from position i (1-based): inQuotes tells whether a quoted
\* field is open, quoted whether the current field was opened by a quote,
\* field, row and rows are what has been read so far
RECURSIVE ParseFrom(_, _, _, _, _, _, _, _)
ParseFrom(text, delimiter, i, inQuotes, quoted, field, row, rows) ==
    IF i > Len(text)
    THEN Append(rows, Append(row, field))
    ELSE LET ch == text[i] IN
         IF inQuotes
         THEN IF ch = Quote
              THEN IF i < Len(text) /\ text[i + 1] = Quote
                   THEN ParseFrom(text, delimiter, i + 2, TRUE, TRUE,
                                  Append(field, Quote), row, rows)
                   ELSE ParseFrom(text, delimiter, i + 1, FALSE, TRUE, field, row, rows)
              ELSE ParseFrom(text, delimiter, i + 1, TRUE, TRUE,
                             Append(field, ch), row, rows)
         ELSE IF ch = delimiter
              THEN ParseFrom(text, delimiter, i + 1, FALSE, FALSE, <<>>,
                             Append(row, field), rows)
         ELSE IF ch = NL
              THEN ParseFrom(text, delimiter, i + 1, FALSE, FALSE, <<>>, <<>>,
                             Append(rows, Append(row, field)))
         ELSE IF ch = Quote /\ field = <<>> /\ ~quoted
              THEN ParseFrom(text, delimiter, i + 1, TRUE, TRUE, field, row, rows)
         ELSE ParseFrom(text, delimiter, i + 1, FALSE, quoted, Append(field, ch), row, rows)

\* the data of Papa.parse(text, {delimiter, ...}); an empty text has no rows
Parse(text, delimiter) ==
    IF text = <<>> THEN <<>>
    ELSE ParseFrom(text, delimiter, 1, FALSE, FALSE, <<>>, <<>>, <<>>)

\* the positions of a line at which the term stands, compared ignoring case
TrueOccurrences(line, term) ==
    {i \in 0..(Len(line) - Len(term)) :
        ToLowerCase(Substring(line, i, i + Len(term))) = ToLowerCase(term)}

\* one expected match per term, line and position, in search order
ExpectedMatches(lines, ts) ==
    FlattenSeq([t \in 1..Len(ts) |->
        IF Len(Trim(ts[t])) = 0 THEN <<>>
        ELSE FlattenSeq([l \in 1..Len(lines) |->
                LET occ == SetToSortedSeq(TrueOccurrences(lines[l], ts[t]))
                IN  [k \in 1..Len(occ) |->
                        [line |-> l - 1,
                         start |-> occ[k],
                         text |-> Substring(lines[l], occ[k], occ[k] + Len(ts[t]))]]])])

\* C14: findTextBoxes returns exactly one box per occurrence of each non-empty
\* term, matched ignoring case, on every line; each box carries its line index
\* and the matched substring in its original case; empty and whitespace-only
\* terms yield no box
C14_OneBoxPerOccurrence ==
    stage = "found" =>
        [k \in 1..Len(found) |->
            [line |-> found[k].line,
             start |-> found[k].x \div charWidth,
             text |-> found[k].text]]
          = ExpectedMatches(doc.content.lines, terms)

----------------------------------------------------------------------------
(* CSV documents: inputs and actions *)

CellLens == {4, MaxCellLen}
\* letters of two lengths, a number, and a cell that already holds a redaction
Cells == {Repeat("a", n) : n \in CellLens}
            \cup {<<"7">>, Repeat(redactionChar, MinRedactionLen)}
Rows == UNION {[1..k -> Cells] : k \in 1..MaxCols}
Grids == UNION {[1..k -> Rows] : k \in 1..MaxRows}
CsvTerms == {<<>>, <<"A">>, <<"7">>}
CsvTermLists == SeqsUpTo(CsvTerms, MaxTerms)
ColumnNames == {<<"7">>, <<"A", "A", "A", "A">>}

\* the boxes a caller passes on: all found, one of them, or none
CsvEnabled(bs) == {bs, <<>>} \cup {<<bs[k]>> : k \in 1..Len(bs)}

\* a box drawn by hand over one cell position, inside or outside the grid
ManualBoxes ==
    {[x |-> c * 100, y |-> r * 30, w |-> 100, h |-> 30, text |-> <<>>,
      row |-> r, column |-> c, source |-> "manual"] : r \in 0..MaxRows, c \in 0..MaxCols}

InitCsv == InitDoc /\ call = NoCall /\ app = AppIdle /\ InitLib

CsvFormat_load ==
    /\ stage = "none"
    /\ \E data \in Grids : doc' = CsvLoad(data, ",")
    /\ stage' = "loaded"
    /\ UNCHANGED <<viewerDoc, terms, found, lastBoxes, preContent, passed, exported, nRedact, err>>
    /\ UNCHANGED nonDocVars

CsvFormat_findTextBoxes ==
    /\ stage = "loaded"
    /\ \E ts \in CsvTermLists :
          /\ terms' = ts
          /\ found' = CsvFindTextBoxes(doc, ts)
    /\ stage' = "found"
    /\ UNCHANGED <<doc, viewerDoc, lastBoxes, preContent, passed, exported, nRedact, err>>
    /\ UNCHANGED nonDocVars

CsvRedactStep(boxes) ==
    /\ doc' = CsvRedact(doc, boxes)
    /\ lastBoxes' = boxes
    /\ passed' = passed \o boxes
    /\ preContent' = doc.content.data
    /\ stage' = "redacted"
    /\ exported' = NoBlob
    /\ nRedact' = nRedact + 1
    /\ err' = "none"

CsvFormat_redact ==
    /\ stage \in {"found", "redacted"}
    /\ nRedact < MaxCsvRedacts
    /\ \E boxes \in CsvEnabled(found) \cup {<<b>> : b \in ManualBoxes} : CsvRedactStep(boxes)
    /\ UNCHANGED <<viewerDoc, terms, found>>
    /\ UNCHANGED nonDocVars

CsvFormat_redactColumn ==
    /\ stage \in {"found", "redacted"}
    /\ nRedact < MaxCsvRedacts
    /\ \/ \E columnIdentifier \in 0..MaxCols :
              CsvRedactStep(ColumnBoxes(doc, columnIdentifier))
       \/ \E columnIdentifier \in ColumnNames :
              IF ~redactColumnByName(doc, columnIdentifier).ok
              THEN /\ err' = "Column not found"
                   /\ UNCHANGED <<doc, lastBoxes, passed, preContent, stage, exported, nRedact>>
              ELSE CsvRedactStep(ColumnBoxes(doc, getColumnIndex(doc, columnIdentifier)))
    /\ UNCHANGED <<viewerDoc, terms, found>>
    /\ UNCHANGED nonDocVars

CsvFormat_export ==
    /\ stage = "redacted"
    /\ exported' = CsvExport(doc)
    /\ UNCHANGED <<doc, viewerDoc, terms, found, lastBoxes, preContent, passed, stage, nRedact, err>>
    /\ UNCHANGED nonDocVars

NextCsv ==
    \/ CsvFormat_load
    \/ CsvFormat_findTextBoxes
    \/ CsvFormat_redact
    \/ CsvFormat_redactColumn
    \/ CsvFormat_export

SpecCsv == InitCsv /\ [][NextCsv]_vars

----------------------------------------------------------------------------
(* CSV documents: properties *)

AllBlock(cell) == cell # <<>> /\ \A k \in 1..Len(cell) : cell[k] = redactionChar

\* some box of the last redact addresses cell (r, c), 0-based
Addressed(r, c) == \E b \in Range(lastBoxes) : b.row = r /\ b.column = c

CellPositions == {<<r, c>> \in (0..MaxRows) \X (0..MaxCols) :
                    r < Len(preContent) /\ c < Len(preContent[r + 1])}

PreCell(rc) == preContent[rc[1] + 1][rc[2] + 1]
NewCell(rc) == doc.content.data[rc[1] + 1][rc[2] + 1]

SameShape ==
    /\ Len(doc.content.data) = Len(preContent)
    /\ \A r \in 1..Len(preContent) : Len(doc.content.data[r]) = Len(preContent[r])

\* C5 as stated: a cell's content is changed if and only if some box
\* addresses it; addressed cells hold block characters only.
C5_ChangedIffAddressed ==
    stage = "redacted" =>
        /\ SameShape
        /\ \A rc \in CellPositions :
              /\ (NewCell(rc) # PreCell(rc)) <=> Addressed(rc[1], rc[2])
              /\ Addressed(rc[1], rc[2]) => AllBlock(NewCell(rc))

\* C5 (amended): after redact every addressed cell consists solely of block
\* characters, every other cell is unchanged, and an addressed cell keeps its
\* content only if that already was a run of 3 to 20 block characters.
C5_WholeCellRedacted ==
    stage = "redacted" =>
        /\ SameShape
        /\ \A rc \in CellPositions :
              IF Addressed(rc[1], rc[2])
              THEN /\ AllBlock(NewCell(rc))
                   /\ NewCell(rc) = PreCell(rc) =>
                         /\ AllBlock(PreCell(rc))
                         /\ Len(PreCell(rc)) \in MinRedactionLen..MaxRedactionLen
              ELSE NewCell(rc) = PreCell(rc)

\* a found box over a cell longer than the term was redacted, another cell kept
C5_Witness ==
    /\ stage = "redacted"
    /\ \E rc \in CellPositions :
          /\ Addressed(rc[1], rc[2])
          /\ \E b \in Range(lastBoxes) : b.source = "regex" /\ b.row = rc[1] /\ b.column = rc[2]
          /\ Len(PreCell(rc)) = 4
          /\ AllBlock(NewCell(rc))
    /\ \E rc \in CellPositions :
          ~Addressed(rc[1], rc[2]) /\ ~AllBlock(PreCell(rc)) /\ NewCell(rc) = PreCell(rc)

\* C6 as stated: the redacted length is 3 to 20 and tells nothing about the
\* original length: any two redacted cells have runs of the same length.
C6_LengthIndependent ==
    stage = "redacted" =>
        \A rc1, rc2 \in CellPositions :
            (Addressed(rc1[1], rc1[2]) /\ Addressed(rc2[1], rc2[2])) =>
                /\ Len(NewCell(rc1)) \in 3..20
                /\ Len(NewCell(rc1)) = Len(NewCell(rc2))

\* C6 (amended): the run is the original length clamped to 3..20, so cells
\* with original lengths both <= 3 or both >= 20 get runs of equal length.
C6_LengthClamped ==
    stage = "redacted" =>
        \A rc1, rc2 \in CellPositions :
            (Addressed(rc1[1], rc1[2]) /\ Addressed(rc2[1], rc2[2])) =>
                LET n1 == Len(PreCell(rc1))
                    n2 == Len(PreCell(rc2))
                IN  /\ Len(NewCell(rc1)) \in 3..20
                    /\ Len(NewCell(rc1)) = (IF n1 < 3 THEN 3 ELSE IF n1 > 20 THEN 20 ELSE n1)
                    /\ (n1 <= 3 /\ n2 <= 3) => Len(NewCell(rc1)) = Len(NewCell(rc2))
                    /\ (n1 >= 20 /\ n2 >= 20) => Len(NewCell(rc1)) = Len(NewCell(rc2))

\* one call redacted a cell shorter than 3 and a cell longer than 20
C6_Witness ==
    /\ stage = "redacted"
    /\ \E rc1, rc2 \in CellPositions :
          /\ Addressed(rc1[1], rc1[2]) /\ Addressed(rc2[1], rc2[2])
          /\ Len(PreCell(rc1)) < 3 /\ Len(NewCell(rc1)) = 3
          /\ Len(PreCell(rc2)) > 20 /\ Len(NewCell(rc2)) = 20

\* C9: every box applied by redact or stored in doc.boxes has w > 0 and h > 0
\* (x, y, w, h of these boxes are integers, hence finite).
C9_BoxesValid ==
    doc # NoDoc =>
        \A b \in Range(doc.boxes) \cup Range(lastBoxes) : b.w > 0 /\ b.h > 0

\* the 0-based indices of the headers equal to columnName ignoring case
HeaderHits(d, columnName) ==
    {i \in 0..(Len(d.content.headers) - 1) :
        ToLowerCase(d.content.headers[i + 1]) = ToLowerCase(columnName)}

\* a loaded CSV document on which redactColumn may be called
CsvLoaded == doc # NoDoc /\ doc.format = "csv"

\* C15: on a CSV with a header row, redactColumn by name and redactColumn by
\* the index of the header equal to the name ignoring case (the first one)
\* give the same cell content: every data cell of the column is redacted, the
\* header row and all other columns are unchanged
C15_ColumnByNameAsByIndex ==
    (CsvLoaded /\ doc.content.hasHeaders) =>
        \A name \in ColumnNames :
            HeaderHits(doc, name) # {} =>
                LET i == MinOf(HeaderHits(doc, name))
                    byName == redactColumnByName(doc, name)
                    byIndex == redactColumnByIndex(doc, i)
                    old == doc.content.data
                IN  /\ byName.ok
                    /\ byName.value.content.data = byIndex.value.content.data
                    /\ LET new == byName.value.content.data
                       IN  /\ Len(new) = Len(old)
                           /\ \A r \in 1..Len(old) :
                                 /\ Len(new[r]) = Len(old[r])
                                 /\ \A c \in 1..Len(old[r]) :
                                       IF r > 1 /\ c = i + 1
                                       THEN AllBlock(new[r][c])
                                       ELSE new[r][c] = old[r][c]

\* a column of a CSV with headers has been redacted through a name that
\* differs from its header in case
C15_Witness ==
    /\ CsvLoaded /\ doc.content.hasHeaders
    /\ nRedact > 0 /\ err = "none"
    /\ lastBoxes # <<>>
    /\ \A b \in Range(lastBoxes) : b.source = "manual" /\ b.w = 0 /\ b.column = 1
    /\ <<"A", "A", "A", "A">> \notin Range(doc.content.headers)
    /\ getColumnIndex(doc, <<"A", "A", "A", "A">>) = 1
    /\ AllBlock(doc.content.data[2][2])
    /\ ~AllBlock(doc.content.data[2][1])

\* C16: redactColumn with a column that does not exist, by name or by index,
\* fails with an error that names the column and leaves the document as it was
C16_MissingColumnFails ==
    CsvLoaded =>
        /\ \A name \in ColumnNames :
              getColumnIndex(doc, name) = NoColumn =>
                  /\ ~redactColumnByName(doc, name).ok
                  /\ redactColumnByName(doc, name).error[2] = name
        /\ \A i \in 0..MaxCols :
              (\A r \in 1..Len(doc.content.data) : i >= Len(doc.content.data[r])) =>
                  ~redactColumnByIndex(doc, i).ok

----------------------------------------------------------------------------
(* CSV/TSV export of cells that hold delimiters, quotes and newlines *)

TAB == "TAB"
Delimiters == {",", TAB}
SpecialChars == {Quote, ",", NL, TAB}
QuoteCells == SeqsUpTo(SpecialChars, MaxQuoteCellLen)
QuoteRows == UNION {[1..k -> QuoteCells] : k \in 1..MaxQuoteCols}
\* a full first row, followed by rows of one cell of at most one character
QuoteGrids ==
    {<<r>> \o rest : r \in QuoteRows,
                     rest \in SeqsUpTo({<<c>> : c \in SeqsUpTo(SpecialChars, 1)},
                                       MaxQuoteRows - 1)}

InitQuote == InitDoc /\ call = NoCall /\ app = AppIdle /\ InitLib

\* export of a document whose content is the grid data
Call_CsvFormat_export ==
    /\ call = NoCall
    /\ \E data \in QuoteGrids, delimiter \in Delimiters :
          call' = [fn |-> "CsvFormat.export", data |-> data, delimiter |-> delimiter,
                   result |-> CsvExport([content |-> [data |-> data,
                                                      delimiter |-> delimiter]])]
    /\ UNCHANGED nonPdfVars

\* the exported text is parsed again with the same delimiter
Call_PapaParse ==
    /\ call # NoCall
    /\ call.fn = "CsvFormat.export"
    /\ call' = [fn |-> "Papa.parse", data |-> call.data, delimiter |-> call.delimiter,
                text |-> call.result,
                result |-> Parse(call.result, call.delimiter)]
    /\ UNCHANGED nonPdfVars

NextQuote ==
    \/ Call_CsvFormat_export
    \/ Call_PapaParse

SpecQuote == InitQuote /\ [][NextQuote]_vars

\* the field holds the delimiter, the quote character or a newline
NeedsQuotes(cell, delimiter) ==
    \E k \in 1..Len(cell) : cell[k] \in {delimiter, Quote, NL}

\* C17: every field that holds the delimiter, the quote character or a newline
\* is written between quotes with its quote characters doubled, and parsing the
\* exported text with the same delimiter gives the cell grid back
C17_ExportQuotesAndRoundTrips ==
    /\ (call # NoCall /\ call.fn = "CsvFormat.export") =>
          \A r \in 1..Len(call.data) : \A c \in 1..Len(call.data[r]) :
              NeedsQuotes(call.data[r][c], call.delimiter) =>
                  Includes(call.result,
                           <<Quote>> \o EscapeQuotes(call.data[r][c]) \o <<Quote>>)
    /\ (call # NoCall /\ call.fn = "Papa.parse") => call.result = call.data

\* a grid of two rows with a cell that holds a quote and the delimiter and a
\* cell that holds a newline has been exported and parsed back
C17_Witness ==
    /\ call # NoCall /\ call.fn = "Papa.parse"
    /\ Len(call.data) = 2
    /\ call.data[1] = <<<<Quote, call.delimiter>>, <<NL>>>>
    /\ call.result = call.data

----------------------------------------------------------------------------
(* JavaScript numbers: rationals n/d in lowest terms, NaN, +Infinity, -Infinity *)

RECURSIVE Gcd(_, _)
Gcd(a, b) == IF b = 0 THEN a ELSE Gcd(b, a % b)

Abs(a) == IF a < 0 THEN -a ELSE a

Rat(n, d) ==
    LET g == Gcd(Abs(n), Abs(d))
        sgn == IF d < 0 THEN -1 ELSE 1
    IN  [k |-> "fin", n |-> sgn * (n \div g), d |-> Abs(d) \div g]

Num(n) == [k |-> "fin", n |-> n, d |-> 1]
NaN == [k |-> "nan", n |-> 0, d |-> 1]
PosInf == [k |-> "inf", n |-> 1, d |-> 1]
NegInf == [k |-> "inf", n |-> -1, d |-> 1]

isNaN(a) == a.k = "nan"
IsFinite(a) == a.k = "fin"
Sign(a) == IF a.n > 0 THEN 1 ELSE IF a.n < 0 THEN -1 ELSE 0
Inf(sgn) == IF sgn < 0 THEN NegInf ELSE PosInf

\* a < b; false when either is NaN
Lt(a, b) ==
    CASE isNaN(a) \/ isNaN(b) -> FALSE
      [] IsFinite(a) /\ IsFinite(b) -> a.n * b.d < b.n * a.d
      [] IsFinite(a) -> b = PosInf
      [] IsFinite(b) -> a = NegInf
      [] OTHER -> a = NegInf /\ b = PosInf

\* a <= b; false when either is NaN
Le(a, b) == ~isNaN(a) /\ ~isNaN(b) /\ (a = b \/ Lt(a, b))

Neg(a) ==
    CASE isNaN(a) -> NaN
      [] IsFinite(a) -> [a EXCEPT !.n = -a.n]
      [] OTHER -> Inf(-a.n)

Add(a, b) ==
    CASE isNaN(a) \/ isNaN(b) -> NaN
      [] IsFinite(a) /\ IsFinite(b) -> Rat(a.n * b.d + b.n * a.d, a.d * b.d)
      [] IsFinite(a) -> b
      [] IsFinite(b) -> a
      [] OTHER -> IF a = b THEN a ELSE NaN

Sub(a, b) == Add(a, Neg(b))

Mul(a, b) ==
    CASE isNaN(a) \/ isNaN(b) -> NaN
      [] IsFinite(a) /\ IsFinite(b) -> Rat(a.n * b.n, a.d * b.d)
      [] Sign(a) = 0 \/ Sign(b) = 0 -> NaN
      [] OTHER -> Inf(Sign(a) * Sign(b))

Div(a, b) ==
    CASE isNaN(a) \/ isNaN(b) -> NaN
      [] IsFinite(a) /\ IsFinite(b) ->
            IF b.n = 0 THEN (IF a.n = 0 THEN NaN ELSE Inf(Sign(a)))
            ELSE Rat(a.n * b.d, a.d * b.n)
      [] IsFinite(a) -> Num(0)
      [] IsFinite(b) -> Inf(a.n * (IF b.n < 0 THEN -1 ELSE 1))
      [] OTHER -> NaN

----------------------------------------------------------------------------
(* Pixel-to-PDF coordinate conversion *)

Thrown(message) == [ok |-> FALSE, error |-> message]
Returned(value) == [ok |-> TRUE, value |-> value]

\* a conversion that scales but keeps the top-left origin
convertBoxToPdfLibTopLeft(box, pdfPageHeight, scale) ==
    [ok |-> TRUE,
     value |-> [x |-> Div(box.x, scale), y |-> Div(box.y, scale),
                width |-> Div(box.w, scale), height |-> Div(box.h, scale)],
     warned |-> FALSE]

\* convertBoxToPdfLib(box, pdfPageHeight, scale)
convertBoxToPdfLib(box, pdfPageHeight, scale) ==
    LET x == Div(box.x, scale)
        width == Div(box.w, scale)
        height == Div(box.h, scale)
        canvasY == Div(box.y, scale)
        y == Sub(pdfPageHeight, Add(canvasY, height))
    IN  IF scale = Num(0) \/ Le(scale, Num(0)) \/ isNaN(scale)
        THEN Thrown("Invalid scale factor")
        ELSE IF isNaN(box.x) THEN Thrown("Invalid box.x")
        ELSE IF isNaN(box.y) THEN Thrown("Invalid box.y")
        ELSE IF isNaN(box.w) THEN Thrown("Invalid box.w")
        ELSE IF isNaN(box.h) THEN Thrown("Invalid box.h")
        ELSE IF isNaN(x) \/ isNaN(y) \/ isNaN(width) \/ isNaN(height)
        THEN Thrown("Conversion produced NaN")
        ELSE [ok |-> TRUE,
              value |-> [x |-> x, y |-> y, width |-> width, height |-> height],
              warned |-> Lt(y, Num(0)) \/ Lt(pdfPageHeight, y) \/ Lt(x, Num(0))]

\* a PDF-to-pixel conversion that scales but does not flip the y axis
pdfBoxToPixelNoFlip(box, pageHeightPoints, renderScale) ==
    [x |-> Mul(box.x, renderScale), y |-> Mul(box.y, renderScale),
     w |-> Mul(box.width, renderScale), h |-> Mul(box.height, renderScale)]

\* pdfBoxToPixel(box, pageHeightPoints, renderScale), the inverse conversion of
\* the coordinate converter: bottom-left origin in points to top-left origin in
\* pixels
pdfBoxToPixel(box, pageHeightPoints, renderScale) ==
    [x |-> Mul(box.x, renderScale),
     y |-> Mul(Sub(pageHeightPoints, Add(box.y, box.height)), renderScale),
     w |-> Mul(box.width, renderScale),
     h |-> Mul(box.height, renderScale)]

\* convertBoxesToPdfLib(boxes, pdfPageHeight, scale): the first throw ends the map
convertBoxesToPdfLib(boxes, pdfPageHeight, scale) ==
    LET results == [k \in 1..Len(boxes) |-> convertBoxToPdfLib(boxes[k], pdfPageHeight, scale)]
        failed == {k \in 1..Len(boxes) : ~results[k].ok}
    IN  IF failed # {} THEN results[MinOf(failed)]
        ELSE Returned([k \in 1..Len(boxes) |-> results[k].value])

----------------------------------------------------------------------------
(* PDF export *)

\* a page of a PDF document: its text layer, the raster image drawn on it
\* (NoImage when none) and the rectangles drawn on top
NoImage == [page |-> -1, fills |-> {}]

\* the page copied from the source document instead of built from the image
CanvasPageKeepingText(canvas) == [text |-> TRUE, image |-> canvas, rects |-> <<>>]

\* exportPdfFromCanvases: the page added for one canvas
CanvasPage(canvas) == [text |-> FALSE, image |-> canvas, rects |-> <<>>]

\* exportPdfFromCanvases(canvases)
exportPdfFromCanvases(canvases) ==
    Returned([fresh |-> TRUE,
              pages |-> [k \in 1..Len(canvases) |-> CanvasPage(canvases[k])]])

\* the rectangles drawn on one page: boxes with a NaN field are skipped
RECURSIVE DrawRectangles(_)
DrawRectangles(pdfLibBoxes) ==
    IF pdfLibBoxes = <<>> THEN <<>>
    ELSE LET box == Head(pdfLibBoxes)
         IN  (IF isNaN(box.x) \/ isNaN(box.y) \/ isNaN(box.width) \/ isNaN(box.height)
              THEN <<>>
              ELSE <<[x |-> box.x, y |-> box.y, width |-> box.width,
                      height |-> box.height, opacity |-> 1]>>)
             \o DrawRectangles(Tail(pdfLibBoxes))

HasBoxes(pageBoxes, pageIndex) ==
    pageIndex \in DOMAIN pageBoxes /\ pageBoxes[pageIndex] # <<>>

\* exportPdfWithRedactionBoxes(originalPdfBytes, pageBoxes, scale)
exportPdfWithRedactionBoxes(originalPdfBytes, pageBoxes, scale) ==
    LET pages == originalPdfBytes.pages
        converted(i) == convertBoxesToPdfLib(pageBoxes[i], pages[i + 1].height, scale)
        failed == {i \in 0..(Len(pages) - 1) : HasBoxes(pageBoxes, i) /\ ~converted(i).ok}
    IN  IF originalPdfBytes.byteLength = 0 THEN Thrown("Invalid PDF bytes: empty or null")
        ELSE IF Le(scale, Num(0)) THEN Thrown("Invalid scale factor")
        ELSE IF failed # {}
        THEN Thrown("Failed to export PDF with redactions: " \o converted(MinOf(failed)).error)
        ELSE Returned([fresh |-> FALSE,
                       pages |-> [k \in 1..Len(pages) |->
                            [text |-> pages[k].text,
                             image |-> NoImage,
                             rects |-> IF HasBoxes(pageBoxes, k - 1)
                                       THEN DrawRectangles(converted(k - 1).value)
                                       ELSE <<>>]]])

----------------------------------------------------------------------------
(* PDF export and conversion: inputs and actions *)

Coords == {Num(0), Num(25), Num(900), NaN, PosInf}
Scales == {Num(-1), Num(0), Num(2), Rat(3, 2), NaN, PosInf}
PageHeights == {Num(100), NaN, PosInf}
PixelBoxes == [x : Coords, y : Coords, w : Coords, h : Coords]

PageHeight == Num(100)
\* boxes of a rendered page: on the page, below the page, with NaN, with Infinity
PageBoxPool ==
    {[x |-> Num(0), y |-> Num(25), w |-> Num(25), h |-> Num(25)],
     [x |-> Num(0), y |-> Num(900), w |-> Num(25), h |-> Num(25)],
     [x |-> NaN, y |-> Num(25), w |-> Num(25), h |-> Num(25)],
     [x |-> Num(0), y |-> Num(25), w |-> PosInf, h |-> Num(25)]}

PdfFiles ==
    {[byteLength |-> 0, pages |-> <<>>]}
        \cup {[byteLength |-> 1000 * n,
               pages |-> [k \in 1..n |-> [height |-> PageHeight, text |-> TRUE]]] :
                 n \in 1..MaxPages}

\* page index -> boxes; index MaxPages lies beyond every document
PageBoxMaps ==
    UNION {[keys -> SeqsUpTo(PageBoxPool, MaxBoxesPerPage)] : keys \in SUBSET (0..MaxPages)}

\* a rendered page with the fills drawn on its canvas
Canvases == [page : 0..(MaxPages - 1), fills : SUBSET {"box1", "box2"}]

InitPdf == InitDoc /\ call = NoCall /\ app = AppIdle /\ InitLib

Call_convertBoxToPdfLib ==
    /\ call = NoCall
    /\ \E box \in PixelBoxes, pdfPageHeight \in PageHeights, scale \in Scales :
          call' = [fn |-> "convertBoxToPdfLib",
                   box |-> box, pdfPageHeight |-> pdfPageHeight, scale |-> scale,
                   result |-> convertBoxToPdfLib(box, pdfPageHeight, scale)]
    /\ UNCHANGED nonPdfVars

\* the box a conversion returned is converted back with the same page height
\* and scale
Call_pdfBoxToPixel ==
    /\ call # NoCall
    /\ call.fn = "convertBoxToPdfLib"
    /\ call.result.ok
    /\ call' = [fn |-> "pdfBoxToPixel",
                box |-> call.box, pdfPageHeight |-> call.pdfPageHeight,
                scale |-> call.scale, pdfBox |-> call.result.value,
                result |-> pdfBoxToPixel(call.result.value, call.pdfPageHeight,
                                         call.scale)]
    /\ UNCHANGED nonPdfVars

Call_exportPdfFromCanvases ==
    /\ call = NoCall
    /\ \E canvases \in SeqsUpTo(Canvases, MaxPages) :
          call' = [fn |-> "exportPdfFromCanvases",
                   canvases |-> canvases,
                   result |-> exportPdfFromCanvases(canvases)]
    /\ UNCHANGED nonPdfVars

Call_exportPdfWithRedactionBoxes ==
    /\ call = NoCall
    /\ \E originalPdfBytes \in PdfFiles, pageBoxes \in PageBoxMaps, scale \in Scales :
          call' = [fn |-> "exportPdfWithRedactionBoxes",
                   originalPdfBytes |-> originalPdfBytes,
                   pageBoxes |-> pageBoxes, scale |-> scale,
                   result |-> exportPdfWithRedactionBoxes(originalPdfBytes, pageBoxes, scale)]
    /\ UNCHANGED nonPdfVars

NextPdf ==
    \/ Call_convertBoxToPdfLib
    \/ Call_pdfBoxToPixel
    \/ Call_exportPdfFromCanvases
    \/ Call_exportPdfWithRedactionBoxes

SpecPdf == InitPdf /\ [][NextPdf]_vars

----------------------------------------------------------------------------
(* PDF export and conversion: properties *)

IsExport == call.fn \in {"exportPdfFromCanvases", "exportPdfWithRedactionBoxes"}

\* C1 as stated: every exported PDF is a fresh document whose pages hold
\* only a raster image: no retained text layer, no rectangle drawn over it.
C1_EveryExportFlattened ==
    (IsExport /\ call.result.ok) =>
        /\ call.result.value.fresh
        /\ \A k \in 1..Len(call.result.value.pages) :
              LET page == call.result.value.pages[k]
              IN  ~page.text /\ page.rects = <<>> /\ page.image # NoImage

\* C1 (amended): exportPdfFromCanvases returns a fresh document with one page
\* per canvas holding only that canvas as an image; exportPdfWithRedactionBoxes
\* returns the original document, text layers retained, with rectangles on top.
C1_CanvasExportFlattened ==
    /\ (call.fn = "exportPdfFromCanvases" /\ call.result.ok) =>
          /\ call.result.value.fresh
          /\ Len(call.result.value.pages) = Len(call.canvases)
          /\ \A k \in 1..Len(call.canvases) :
                LET page == call.result.value.pages[k]
                IN  ~page.text /\ page.rects = <<>> /\ page.image = call.canvases[k]
    /\ (call.fn = "exportPdfWithRedactionBoxes" /\ call.result.ok) =>
          /\ ~call.result.value.fresh
          /\ Len(call.result.value.pages) = Len(call.originalPdfBytes.pages)
          /\ \A k \in 1..Len(call.originalPdfBytes.pages) :
                LET page == call.result.value.pages[k]
                IN  page.text = call.originalPdfBytes.pages[k].text /\ page.image = NoImage

\* two redacted canvases were exported
C1_Witness ==
    /\ call.fn = "exportPdfFromCanvases"
    /\ call.result.ok
    /\ Len(call.result.value.pages) = 2
    /\ \A k \in 1..2 : call.canvases[k].fills # {} /\ ~call.result.value.pages[k].text

\* C2: exportPdfWithRedactionBoxes either fails or draws, for every box of the
\* page-to-boxes map, an opaque rectangle at the converted position.
C2_NoBoxDropped ==
    (call.fn = "exportPdfWithRedactionBoxes" /\ call.result.ok) =>
        \A p \in DOMAIN call.pageBoxes :
            \A i \in 1..Len(call.pageBoxes[p]) :
                /\ p < Len(call.result.value.pages)
                /\ \E rect \in Range(call.result.value.pages[p + 1].rects) :
                      /\ rect.opacity = 1
                      /\ rect.x = Div(call.pageBoxes[p][i].x, call.scale)
                      /\ rect.width = Div(call.pageBoxes[p][i].w, call.scale)
                      /\ rect.height = Div(call.pageBoxes[p][i].h, call.scale)

\* C10: the conversion throws when the scale is <= 0 or any input is NaN or
\* infinite, and every box it returns has four finite fields.
C10_ConversionRejectsNonFinite ==
    call.fn = "convertBoxToPdfLib" =>
        LET inputs == {call.scale, call.pdfPageHeight,
                       call.box.x, call.box.y, call.box.w, call.box.h}
        IN  /\ (Le(call.scale, Num(0)) \/ \E v \in inputs : ~IsFinite(v)) => ~call.result.ok
            /\ call.result.ok =>
                  \A v \in {call.result.value.x, call.result.value.y,
                            call.result.value.width, call.result.value.height} : IsFinite(v)

\* valid conversion inputs: finite numbers and a positive scale
ValidConversionInput(c) ==
    /\ IsFinite(c.box.x) /\ IsFinite(c.box.y)
    /\ IsFinite(c.box.w) /\ IsFinite(c.box.h)
    /\ IsFinite(c.pdfPageHeight)
    /\ IsFinite(c.scale) /\ Lt(Num(0), c.scale)

\* C11: for valid inputs the conversion returns x = box.x / S, width = box.w / S,
\* height = box.h / S and y = H - (box.y / S + box.h / S); the returned
\* rectangle covers the same area of the page: its top edge lies box.y / S
\* below the top of the page and its bottom edge (box.y + box.h) / S below it
C11_ConversionFormula ==
    (call # NoCall /\ call.fn = "convertBoxToPdfLib" /\ ValidConversionInput(call)) =>
        /\ call.result.ok
        /\ call.result.value.x = Div(call.box.x, call.scale)
        /\ call.result.value.width = Div(call.box.w, call.scale)
        /\ call.result.value.height = Div(call.box.h, call.scale)
        /\ call.result.value.y =
              Sub(call.pdfPageHeight,
                  Add(Div(call.box.y, call.scale), Div(call.box.h, call.scale)))
        /\ Add(call.result.value.y, call.result.value.height) =
              Sub(call.pdfPageHeight, Div(call.box.y, call.scale))
        /\ call.result.value.y =
              Sub(call.pdfPageHeight, Div(Add(call.box.y, call.box.h), call.scale))

\* a valid box with a non-integer result is converted
C11_Witness ==
    /\ call # NoCall /\ call.fn = "convertBoxToPdfLib" /\ ValidConversionInput(call)
    /\ call.box.y = Num(25) /\ call.box.h = Num(25) /\ call.scale = Rat(3, 2)
    /\ call.result.ok
    /\ call.result.value.y = Rat(200, 3)

----------------------------------------------------------------------------
(* Export of every format: plain text, CSV and PDF with redaction boxes *)

InitExport == InitDoc /\ call = NoCall /\ app = AppIdle /\ InitLib

NextExport ==
    \/ call = NoCall /\ (doc = NoDoc \/ doc.format = "txt") /\ NextText
    \/ call = NoCall /\ (doc = NoDoc \/ doc.format = "csv") /\ NextCsv
    \/ stage = "none" /\ Call_exportPdfWithRedactionBoxes

SpecExport == InitExport /\ [][NextExport]_vars

\* C13: export leaves doc.content, doc.boxes and doc.modified as they were and
\* yields a Blob; a PDF export that fails yields an error and no bytes, and
\* leaves its input as it was
C13_ExportLeavesNoTrace ==
    [][/\ (exported' # exported /\ exported' # NoBlob) => doc' = doc
       /\ (call' # call /\ call'.fn = "exportPdfWithRedactionBoxes") =>
              /\ doc' = doc
              /\ exported' = exported
              /\ call'.result.ok \/ DOMAIN call'.result = {"ok", "error"}]_vars

\* a redacted, modified document has been exported
C13_Witness ==
    /\ doc # NoDoc
    /\ doc.modified
    /\ doc.boxes # <<>>
    /\ doc.content.fullText # Join(preContent) \/ doc.format = "csv"
    /\ exported # NoBlob

----------------------------------------------------------------------------
(* PDF sanitization *)

\* a page without an Annots entry
NoAnnots == [present |-> FALSE, items |-> <<>>]
Annots(items) == [present |-> TRUE, items |-> items]
\* the catalog without an AcroForm; without EmbeddedFiles in Names
NoAcroForm == -1
NoEmbeddedFiles == -1

SanitizeOptionNames ==
    {"stripMetadata", "removeAnnotations", "removeFormFields", "stripHyperlinks",
     "removeXMPMetadata", "removeAttachments", "removeJavaScript", "removeEmbeddedFiles"}

\* DEFAULT_SANITIZE_OPTIONS
DEFAULT_SANITIZE_OPTIONS == [o \in SanitizeOptionNames |-> TRUE]

\* stripDocumentMetadata(pdfDoc): the standard Info entries are deleted
stripDocumentMetadata(pdf) == [pdf EXCEPT !.info = FALSE]

\* removeXMPMetadata(pdfDoc)
removeXMPMetadata(pdf) ==
    IF pdf.xmp THEN [pdf |-> [pdf EXCEPT !.xmp = FALSE], removed |-> TRUE]
    ELSE [pdf |-> pdf, removed |-> FALSE]

RECURSIVE SumSeq(_)
SumSeq(q) == IF q = <<>> THEN 0 ELSE Head(q) + SumSeq(Tail(q))

\* removeAnnotations(pdfDoc)
removeAnnotations(pdf) ==
    [pdf |-> [pdf EXCEPT !.pages = [k \in 1..Len(pdf.pages) |->
                                      [pdf.pages[k] EXCEPT !.annots = NoAnnots]]],
     count |-> SumSeq([k \in 1..Len(pdf.pages) |-> Len(pdf.pages[k].annots.items)])]

\* removeFormFields(pdfDoc)
removeFormFields(pdf) ==
    IF pdf.acroForm = NoAcroForm THEN [pdf |-> pdf, count |-> 0]
    ELSE [pdf |-> [pdf EXCEPT !.acroForm = NoAcroForm], count |-> pdf.acroForm]

\* the page loop of removeHyperlinks and removeEmbeddedFiles from page i on:
\* annotations of the subtype are dropped, count runs over all pages and the
\* Annots entry is rewritten once count > 0
RECURSIVE FilterAnnots(_, _, _, _)
FilterAnnots(pages, i, count, subtype) ==
    IF i > Len(pages) THEN [pages |-> pages, count |-> count]
    ELSE IF ~pages[i].annots.present
         THEN FilterAnnots(pages, i + 1, count, subtype)
         ELSE LET items == pages[i].annots.items
                  newAnnots == SelectSeq(items, LAMBDA a : a # subtype)
                  newCount == count + (Len(items) - Len(newAnnots))
                  newPage == IF newCount > 0
                             THEN [pages[i] EXCEPT !.annots =
                                     IF newAnnots = <<>> THEN NoAnnots
                                     ELSE Annots(newAnnots)]
                             ELSE pages[i]
              IN  FilterAnnots([pages EXCEPT ![i] = newPage], i + 1, newCount, subtype)

\* removeHyperlinks(pdfDoc)
removeHyperlinks(pdf) ==
    LET r == FilterAnnots(pdf.pages, 1, 0, "Link")
    IN  [pdf |-> [pdf EXCEPT !.pages = r.pages], count |-> r.count]

\* removeJavaScript(pdfDoc)
removeJavaScript(pdf) ==
    LET names == IF pdf.names.present /\ pdf.names.javaScript THEN 1 ELSE 0
        open == IF pdf.openAction = "JavaScript" THEN 1 ELSE 0
        aa == Cardinality({k \in 1..Len(pdf.pages) : pdf.pages[k].aa})
    IN  [pdf |-> [pdf EXCEPT !.names.javaScript = FALSE,
                             !.openAction = IF @ = "JavaScript" THEN "none" ELSE @,
                             !.pages = [k \in 1..Len(pdf.pages) |->
                                          [pdf.pages[k] EXCEPT !.aa = FALSE]]],
         count |-> names + open + aa]

\* removeAttachments(pdfDoc)
removeAttachments(pdf) ==
    IF ~pdf.names.present \/ pdf.names.embeddedFiles = NoEmbeddedFiles
    THEN [pdf |-> pdf, count |-> 0]
    ELSE [pdf |-> [pdf EXCEPT !.names.embeddedFiles = NoEmbeddedFiles],
          count |-> pdf.names.embeddedFiles]

\* removeEmbeddedFiles(pdfDoc)
removeEmbeddedFiles(pdf) ==
    LET r == FilterAnnots(pdf.pages, 1, 0, "FileAttachment")
    IN  [pdf |-> [pdf EXCEPT !.pages = r.pages], count |-> r.count]

\* the result before any step has run
InitialSanitizationResult ==
    [metadata |-> FALSE, annotations |-> 0, formFields |-> 0, hyperlinks |-> 0,
     xmpMetadata |-> FALSE, attachments |-> 0, javaScript |-> 0, embeddedFiles |-> 0]

\* sanitizePDF(pdfBytes, options): the steps run in this order on one document
sanitizePDF(pdfBytes, options) ==
    LET opts == [o \in SanitizeOptionNames |->
                    IF o \in DOMAIN options THEN options[o] ELSE DEFAULT_SANITIZE_OPTIONS[o]]
        d1 == IF opts.stripMetadata THEN stripDocumentMetadata(pdfBytes) ELSE pdfBytes
        s2 == IF opts.removeXMPMetadata THEN removeXMPMetadata(d1)
              ELSE [pdf |-> d1, removed |-> FALSE]
        s3 == IF opts.removeAnnotations THEN removeAnnotations(s2.pdf)
              ELSE [pdf |-> s2.pdf, count |-> 0]
        s4 == IF opts.removeFormFields THEN removeFormFields(s3.pdf)
              ELSE [pdf |-> s3.pdf, count |-> 0]
        s5 == IF opts.stripHyperlinks THEN removeHyperlinks(s4.pdf)
              ELSE [pdf |-> s4.pdf, count |-> 0]
        s6 == IF opts.removeJavaScript THEN removeJavaScript(s5.pdf)
              ELSE [pdf |-> s5.pdf, count |-> 0]
        s7 == IF opts.removeAttachments THEN removeAttachments(s6.pdf)
              ELSE [pdf |-> s6.pdf, count |-> 0]
        s8 == IF opts.removeEmbeddedFiles THEN removeEmbeddedFiles(s7.pdf)
              ELSE [pdf |-> s7.pdf, count |-> 0]
    IN  [success |-> TRUE,
         removed |-> [metadata |-> opts.stripMetadata,
                      annotations |-> s3.count,
                      formFields |-> s4.count,
                      hyperlinks |-> s5.count,
                      xmpMetadata |-> s2.removed,
                      attachments |-> s7.count,
                      javaScript |-> s6.count,
                      embeddedFiles |-> s8.count],
         errors |-> <<>>,
         pdfBytes |-> s8.pdf]

\* pages of a document: bare; a link and a comment with page actions; a file
\* attachment annotation; an empty Annots array
SanitizePages ==
    {[annots |-> NoAnnots, aa |-> FALSE],
     [annots |-> Annots(<<"Link", "Text">>), aa |-> TRUE],
     [annots |-> Annots(<<"FileAttachment">>), aa |-> FALSE],
     [annots |-> Annots(<<>>), aa |-> FALSE]}

SanitizeNames ==
    {[present |-> FALSE, javaScript |-> FALSE, embeddedFiles |-> NoEmbeddedFiles],
     [present |-> TRUE, javaScript |-> TRUE, embeddedFiles |-> 1],
     [present |-> TRUE, javaScript |-> FALSE, embeddedFiles |-> NoEmbeddedFiles]}

SanitizeInputs ==
    [info : BOOLEAN, xmp : BOOLEAN,
     pages : SeqsUpTo(SanitizePages, MaxSanitizePages) \ {<<>>},
     acroForm : {NoAcroForm, 0, 2},
     names : SanitizeNames,
     openAction : {"none", "JavaScript"}]

SanitizeOptionSets == [SanitizeOptionNames -> BOOLEAN]

InitSanitize == InitDoc /\ call = NoCall /\ app = AppIdle /\ InitLib

Call_sanitizePDF ==
    /\ call = NoCall
    /\ \E pdfBytes \in SanitizeInputs, options \in SanitizeOptionSets :
          call' = [fn |-> "sanitizePDF", pdfBytes |-> pdfBytes, options |-> options,
                   result |-> sanitizePDF(pdfBytes, options)]
    /\ UNCHANGED nonPdfVars

\* sanitizePDF(pdfBytes) with the default options
Call_sanitizePDF_default ==
    /\ call = NoCall
    /\ \E pdfBytes \in SanitizeInputs :
          call' = [fn |-> "sanitizePDF", pdfBytes |-> pdfBytes,
                   options |-> DEFAULT_SANITIZE_OPTIONS,
                   result |-> sanitizePDF(pdfBytes, <<>>)]
    /\ UNCHANGED nonPdfVars

NextSanitize ==
    \/ Call_sanitizePDF
    \/ Call_sanitizePDF_default

SpecSanitize == InitSanitize /\ [][NextSanitize]_vars

\* the annotations of a subtype, page by page
AnnotsOfType(pdf, subtype) ==
    [k \in 1..Len(pdf.pages) |->
        SelectSeq(pdf.pages[k].annots.items, LAMBDA a : a = subtype)]

\* the items of each sanitization category held by a document, by option name;
\* links and file attachments count for their own categories only
CategoryItems(pdf) ==
    [stripMetadata |-> pdf.info,
     removeXMPMetadata |-> pdf.xmp,
     removeAnnotations |-> [k \in 1..Len(pdf.pages) |->
                              SelectSeq(pdf.pages[k].annots.items,
                                        LAMBDA a : a \notin {"Link", "FileAttachment"})],
     removeFormFields |-> pdf.acroForm,
     stripHyperlinks |-> AnnotsOfType(pdf, "Link"),
     removeJavaScript |-> <<pdf.names.present /\ pdf.names.javaScript,
                            pdf.openAction = "JavaScript",
                            [k \in 1..Len(pdf.pages) |-> pdf.pages[k].aa]>>,
     removeAttachments |-> IF pdf.names.present THEN pdf.names.embeddedFiles
                           ELSE NoEmbeddedFiles,
     removeEmbeddedFiles |-> AnnotsOfType(pdf, "FileAttachment")]

\* what the result reports for each category, by option name
Reported(result) ==
    [stripMetadata |-> result.removed.metadata,
     removeXMPMetadata |-> result.removed.xmpMetadata,
     removeAnnotations |-> result.removed.annotations,
     removeFormFields |-> result.removed.formFields,
     stripHyperlinks |-> result.removed.hyperlinks,
     removeJavaScript |-> result.removed.javaScript,
     removeAttachments |-> result.removed.attachments,
     removeEmbeddedFiles |-> result.removed.embeddedFiles]

\* C18: a category whose option is off is left untouched in the output and is
\* reported as not removed (false or 0), whatever the other options are
C18_OffCategoryUntouched ==
    (call # NoCall /\ call.fn = "sanitizePDF") =>
        \A o \in SanitizeOptionNames :
            ~call.options[o] =>
                /\ Reported(call.result)[o] = Reported([removed |-> InitialSanitizationResult])[o]
                /\ CategoryItems(call.result.pdfBytes)[o] = CategoryItems(call.pdfBytes)[o]

\* the number of items of each counted category held by a document
ItemCount(pdf) ==
    [removeAnnotations |-> SumSeq([k \in 1..Len(pdf.pages) |->
                                      Len(pdf.pages[k].annots.items)]),
     removeFormFields |-> IF pdf.acroForm = NoAcroForm THEN 0 ELSE pdf.acroForm,
     stripHyperlinks |-> SumSeq([k \in 1..Len(pdf.pages) |->
                                    Len(AnnotsOfType(pdf, "Link")[k])]),
     removeJavaScript |-> (IF pdf.names.present /\ pdf.names.javaScript THEN 1 ELSE 0)
                            + (IF pdf.openAction = "JavaScript" THEN 1 ELSE 0)
                            + Cardinality({k \in 1..Len(pdf.pages) : pdf.pages[k].aa}),
     removeAttachments |-> IF pdf.names.present /\ pdf.names.embeddedFiles # NoEmbeddedFiles
                           THEN pdf.names.embeddedFiles ELSE 0,
     removeEmbeddedFiles |-> SumSeq([k \in 1..Len(pdf.pages) |->
                                        Len(AnnotsOfType(pdf, "FileAttachment")[k])])]

\* C19: for every enabled category the reported count is the number of its
\* items that the input held and the output does not; no error is recorded and
\* the sanitization succeeds, also when a structure is absent
C19_CountsMatchRemovedItems ==
    (call # NoCall /\ call.fn = "sanitizePDF") =>
        /\ call.result.success
        /\ call.result.errors = <<>>
        /\ \A o \in DOMAIN ItemCount(call.pdfBytes) :
              call.options[o] =>
                  Reported(call.result)[o] =
                      ItemCount(call.pdfBytes)[o] - ItemCount(call.result.pdfBytes)[o]

----------------------------------------------------------------------------
(* DetectionMerger: regex and ML detections merged into one set.  Confidence is
   in tenths; a detection's text is the span [start, end) of the source text *)

CertainConfidence == 10

Detection(type, start, end, confidence, source) ==
    [type |-> type, start |-> start, end |-> end,
     confidence |-> confidence, source |-> source]

\* the character spans share at least one position
SpansOverlap(a, b) == a.start < b.end /\ b.start < a.end

\* span a fully contains span b and extends beyond it
SpanExtends(a, b) ==
    a.start <= b.start /\ b.end <= a.end /\ (a.start < b.start \/ b.end < a.end)

\* the sort key: by span, then type, then falling confidence
DetectionKey(d) ==
    (((d.start * 10 + d.end) * 2 + (IF d.type = "name" THEN 0 ELSE 1)) * 11)
        + (CertainConfidence - d.confidence)

RemoveAt(q, i) == [k \in 1..(Len(q) - 1) |-> IF k < i THEN q[k] ELSE q[k + 1]]

RECURSIVE SortDetections(_)
SortDetections(q) ==
    IF q = <<>> THEN <<>>
    ELSE LET i == CHOOSE i \in 1..Len(q) :
                    \A j \in 1..Len(q) : DetectionKey(q[i]) <= DetectionKey(q[j])
         IN  <<q[i]>> \o SortDetections(RemoveAt(q, i))

\* the detections taken in the order given
UnsortedDetections(q) == q

\* the order in which detections are compared
ComparisonOrder(q) == SortDetections(q)

\* deduplication by (text, type): the first of equal detections stays
RECURSIVE Deduplicate(_)
Deduplicate(q) ==
    IF q = <<>> THEN <<>>
    ELSE LET rest == Deduplicate(SubSeq(q, 1, Len(q) - 1))
             d == q[Len(q)]
         IN  IF \E k \in 1..Len(rest) :
                    /\ rest[k].type = d.type
                    /\ rest[k].start = d.start /\ rest[k].end = d.end
             THEN rest ELSE Append(rest, d)

\* one ML detection against the detections kept so far: on an overlap of the
\* same type the one of higher confidence stays, on the larger span if the ML
\* span contains the kept one and extends beyond it; otherwise both stay
Absorb(kept, d) ==
    LET hits == {k \in 1..Len(kept) :
                    kept[k].type = d.type /\ SpansOverlap(kept[k], d)}
    IN  IF hits = {} THEN Append(kept, d)
        ELSE LET k == MinOf(hits)
                 winner == IF d.confidence > kept[k].confidence THEN d ELSE kept[k]
                 merged == IF SpanExtends(d, kept[k])
                           THEN [winner EXCEPT !.start = d.start, !.end = d.end]
                           ELSE winner
             IN  [kept EXCEPT ![k] = merged]

RECURSIVE AbsorbAll(_, _)
AbsorbAll(kept, q) ==
    IF q = <<>> THEN kept ELSE AbsorbAll(Absorb(kept, Head(q)), Tail(q))

\* merge(regexResults, mlResults): regex detections count as certain and are
\* all kept; each ML detection is then compared with what is kept
merge(regexResults, mlResults) ==
    LET all == regexResults \o mlResults
        regex == [k \in 1..Len(SelectSeq(all, LAMBDA d : d.source = "regex")) |->
                    [SelectSeq(all, LAMBDA d : d.source = "regex")[k]
                        EXCEPT !.confidence = CertainConfidence]]
        ml == SelectSeq(all, LAMBDA d : d.source = "ml")
    IN  Deduplicate(AbsorbAll(Deduplicate(ComparisonOrder(regex)), ComparisonOrder(ml)))

RegexDetections ==
    {Detection("name", 1, 3, CertainConfidence, "regex"),
     Detection("phone", 1, 3, CertainConfidence, "regex"),
     Detection("name", 4, 6, CertainConfidence, "regex")}

\* ML detections: two of equal confidence that overlap each other, one that
\* contains a regex span, one inside a regex span, one of another type
MlDetections ==
    {Detection("name", 0, 4, 8, "ml"),
     Detection("name", 3, 5, 8, "ml"),
     Detection("name", 2, 3, 5, "ml"),
     Detection("phone", 0, 2, 9, "ml"),
     Detection("name", 7, 9, 3, "ml")}

InitMerge == InitDoc /\ call = NoCall /\ app = AppIdle /\ InitLib

Call_DetectionMerger_merge ==
    /\ call = NoCall
    /\ \E regexResults \in SeqsUpTo(RegexDetections, MaxRegexResults),
          mlResults \in SeqsUpTo(MlDetections, MaxMlResults) :
          call' = [fn |-> "DetectionMerger.merge",
                   regexResults |-> regexResults, mlResults |-> mlResults,
                   result |-> merge(regexResults, mlResults)]
    /\ UNCHANGED nonPdfVars

NextMerge == Call_DetectionMerger_merge

SpecMerge == InitMerge /\ [][NextMerge]_vars

\* the orderings of a list
Orderings(q) == {[i \in 1..Len(q) |-> q[f[i]]] : f \in Permutations(1..Len(q))}

\* C20: merging the two lists in either order, or with the elements of each
\* list permuted, yields the same set of detections
C20_MergeOrderIndependent ==
    (call # NoCall /\ call.fn = "DetectionMerger.merge") =>
        \A r \in Orderings(call.regexResults), m \in Orderings(call.mlResults) :
            /\ Range(merge(r, m)) = Range(call.result)
            /\ Range(merge(m, r)) = Range(call.result)

\* two overlapping ML detections of the same type and confidence were merged
\* with a regex detection; one of the two is dropped and the regex one is kept
C20_Witness ==
    /\ call # NoCall /\ call.fn = "DetectionMerger.merge"
    /\ call.regexResults = <<Detection("name", 4, 6, CertainConfidence, "regex")>>
    /\ Range(call.mlResults) = {Detection("name", 0, 4, 8, "ml"),
                                Detection("name", 3, 5, 8, "ml")}
    /\ Len(call.result) < 3
    /\ Detection("name", 4, 6, CertainConfidence, "regex") \in Range(call.result)

----------------------------------------------------------------------------
(* Payment card detection: candidate pattern, normalisation, Luhn checksum *)

PanDigits == {"0", "1", "2", "3", "4", "5", "6", "7", "8", "9"}

DigitValue(c) ==
    CASE c = "0" -> 0 [] c = "1" -> 1 [] c = "2" -> 2 [] c = "3" -> 3
      [] c = "4" -> 4 [] c = "5" -> 5 [] c = "6" -> 6 [] c = "7" -> 7
      [] c = "8" -> 8 [] c = "9" -> 9

\* [ -]
Separators == {" ", "-"}

\* {13,19}
MinPanDigits == 13
MaxPanDigits == 19

\* \w over the characters of the texts
IsWordChar(c) == c \in PanDigits \cup {"x", "C"}

\* \b at offset p: exactly one of the characters around p is a word character
WordBoundary(s, p) ==
    LET before == p >= 1 /\ IsWordChar(s[p])
        after == p < Len(s) /\ IsWordChar(s[p + 1])
    IN  before # after

\* the iterations of (?:\d[ -]?) from offset p, at most n of them, greedy:
\* for each the offset after its digit and the offset after its separator
RECURSIVE DigitGroupEnds(_, _, _)
DigitGroupEnds(s, p, n) ==
    IF n = 0 \/ p >= Len(s) \/ s[p + 1] \notin PanDigits THEN <<>>
    ELSE LET d == p + 1
             e == IF d < Len(s) /\ s[d + 1] \in Separators THEN d + 1 ELSE d
         IN  <<[digit |-> d, sep |-> e]>> \o DigitGroupEnds(s, e, n - 1)

MaxOf(S) == CHOOSE x \in S : \A y \in S : x >= y

\* the end of the match of /\b(?:\d[ -]?){13,19}\b/ at offset p, -1 for none:
\* backtracking gives up iterations from the last one, and within an
\* iteration the separator before the digit
MatchAt(s, p) ==
    LET ends == DigitGroupEnds(s, p, MaxPanDigits)
        ok == {k \in MinPanDigits..Len(ends) :
                  WordBoundary(s, ends[k].sep) \/ WordBoundary(s, ends[k].digit)}
    IN  IF ~WordBoundary(s, p) \/ ok = {} THEN -1
        ELSE LET k == MaxOf(ok)
             IN  IF WordBoundary(s, ends[k].sep) THEN ends[k].sep
                 ELSE ends[k].digit

\* text.match(/.../g) || []: the matches from left to right, each search
\* starting where the previous match ended
RECURSIVE MatchAllFrom(_, _)
MatchAllFrom(s, p) ==
    IF p >= Len(s) THEN <<>>
    ELSE LET e == MatchAt(s, p)
         IN  IF e = -1 THEN MatchAllFrom(s, p + 1)
             ELSE <<SubSeq(s, p + 1, e)>> \o MatchAllFrom(s, e)

PanCandidates(text) == MatchAllFrom(text, 0)

IsNotSeparator(c) == c \notin Separators

\* s.replace(/[ -]/g, '')
StripSeparators(s) == SelectSeq(s, IsNotSeparator)

\* from the rightmost digit, doubling every second one, minus 9 above 9
RECURSIVE LuhnLoop(_, _, _)
LuhnLoop(d, i, double) ==
    IF i = 0 THEN 0
    ELSE LET v == DigitValue(d[i])
             w == IF double THEN (IF 2 * v > 9 THEN 2 * v - 9 ELSE 2 * v) ELSE v
         IN  w + LuhnLoop(d, i - 1, ~double)

luhnCheck(d) == LuhnLoop(d, Len(d), FALSE) % 10 = 0

PanFilter(d) == Len(d) >= MinPanDigits /\ Len(d) <= MaxPanDigits /\ luhnCheck(d)

\* the candidates are returned as matched, separators included
findLikelyPANsAsMatched(text) ==
    SelectSeq(PanCandidates(text), LAMBDA s : PanFilter(StripSeparators(s)))

findLikelyPANs(text) ==
    LET candidates == PanCandidates(text)
        stripped == [i \in 1..Len(candidates) |-> StripSeparators(candidates[i])]
    IN  SelectSeq(stripped, PanFilter)

\* the digits the numbers are cut from; its first 16 are a valid card number
CardDigits ==
    <<"4", "5", "3", "2", "0", "1", "5", "1", "1", "2", "8", "3", "0", "3",
      "6", "6", "1", "8", "2", "7">>

\* numbers of one digit less than the pattern takes to one digit more, with
\* every last digit
PanNumbers ==
    {[i \in 1..n |-> IF i = n THEN c ELSE CardDigits[i]] :
        n \in (MinPanDigits - 1)..(MaxPanDigits + 1), c \in PanDigits}

\* the number with sep after every g digits
FormatNumber(number, sep, g) ==
    FlattenSeq([i \in 1..Len(number) |->
        IF i % g = 0 /\ i < Len(number) THEN <<number[i], sep>>
        ELSE <<number[i]>>])

PanFormats(number) ==
    {number} \cup {FormatNumber(number, sep, g) : sep \in Separators, g \in 1..MaxGroup}

PanPrefixes == {<<>>, <<"C", ":", " ">>, <<"x">>, <<"7", "7", "7", "7", " ">>}
PanSuffixes == {<<>>, <<"x">>, <<".">>}

InitPan == InitDoc /\ call = NoCall /\ app = AppIdle /\ InitLib

Call_findLikelyPANs ==
    /\ call = NoCall
    /\ \E number \in PanNumbers, before \in PanPrefixes, after \in PanSuffixes :
          \E formatted \in PanFormats(number) :
             call' = [fn |-> "findLikelyPANs", number |-> number,
                      formatted |-> formatted,
                      text |-> before \o formatted \o after,
                      result |-> findLikelyPANs(before \o formatted \o after)]
    /\ UNCHANGED nonPdfVars

NextPan == Call_findLikelyPANs

SpecPan == InitPan /\ [][NextPan]_vars

\* the checksum by position: the digits at an even distance from the last
\* one count as they are, the others doubled with the two digits of the
\* double added
LuhnValid(d) ==
    LET term(i) ==
            LET v == DigitValue(d[i])
            IN  IF (Len(d) - i) % 2 = 0 THEN v
                ELSE ((2 * v) \div 10) + ((2 * v) % 10)
    IN  SumSeq([i \in 1..Len(d) |-> term(i)]) % 10 = 0

Acceptable(d) ==
    /\ Len(d) \in MinPanDigits..MaxPanDigits
    /\ \A i \in 1..Len(d) : d[i] \in PanDigits
    /\ LuhnValid(d)

----------------------------------------------------------------------------
(* FormatRegistry: format detection and handler lookup *)

\* a lookup that misses, a detection that finds nothing
Undefined == "undefined"
NoFormat == "null"

\* record[key] of a Record<string, string>
Lookup(record, key) == IF key \in DOMAIN record THEN record[key] ELSE Undefined

\* the entries of MIME_TYPES for the document and text formats
MIME_TYPES ==
    [t \in {"application/pdf", "application/docx", "text/plain",
            "text/markdown", "text/csv", "text/tab-separated-values"} |->
        CASE t = "application/pdf" -> "pdf"
          [] t = "application/docx" -> "docx"
          [] t = "text/plain" -> "txt"
          [] t = "text/markdown" -> "md"
          [] t = "text/csv" -> "csv"
          [] t = "text/tab-separated-values" -> "tsv"]

\* the entries of FILE_EXTENSIONS for the same formats
FILE_EXTENSIONS ==
    [e \in {<<"p", "d", "f">>, <<"d", "o", "c", "x">>, <<"t", "x", "t">>,
            <<"m", "d">>, <<"c", "s", "v">>, <<"t", "s", "v">>} |->
        CASE e = <<"p", "d", "f">> -> "pdf"
          [] e = <<"d", "o", "c", "x">> -> "docx"
          [] e = <<"t", "x", "t">> -> "txt"
          [] e = <<"m", "d">> -> "md"
          [] e = <<"c", "s", "v">> -> "csv"
          [] e = <<"t", "s", "v">> -> "tsv"]

\* filename.split('.')
RECURSIVE SplitDots(_)
SplitDots(s) ==
    LET i == IndexOf(s, <<".">>, 0)
    IN  IF i = -1 THEN <<s>>
        ELSE <<Substring(s, 0, i)>> \o SplitDots(SubstringFrom(s, i + 1))

getFileExtension(filename) ==
    LET parts == SplitDots(filename)
    IN  IF Len(parts) < 2 THEN <<>> ELSE ToLowerCase(parts[Len(parts)])

detectFormat(file) ==
    IF file.type # "" /\ Lookup(MIME_TYPES, file.type) # Undefined
    THEN MIME_TYPES[file.type]
    ELSE LET extension == getFileExtension(file.name)
         IN  IF extension # <<>> /\ Lookup(FILE_EXTENSIONS, extension) # Undefined
             THEN FILE_EXTENSIONS[extension]
             ELSE NoFormat

\* formats.set(formatId, factory)
register(reg, formatId, factory) ==
    [reg EXCEPT !.formats = (formatId :> factory) @@ reg.formats]

initialize(reg) ==
    IF reg.initialized THEN reg
    ELSE [register(register(reg, "txt", "PlainTextFormat"), "md", "PlainTextFormat")
            EXCEPT !.initialized = TRUE]

\* new PlainTextFormat(), new CsvFormat()
NewFormat(factory) ==
    [class |-> factory,
     formatId |-> IF factory = "PlainTextFormat" THEN "txt" ELSE "csv"]

\* the messages as the sequence of their pieces; the file name is a string
\* of characters, every other piece a one-element sequence
UnsupportedMessage(file) ==
    << <<"Unsupported file format: ">>, file.name, <<"\nMIME type: ">>,
       <<IF file.type # "" THEN file.type ELSE "unknown">>,
       <<"\nPlease use PDF, images, or supported text formats.">> >>

NoHandlerMessage(formatId) ==
    << <<"Format \"">>, <<formatId>>,
       <<"\" detected but no handler registered.\n">>,
       <<"This format may not be implemented yet.">> >>

\* a detected format without a handler falls back to the plain text handler
getFormatOrPlainText(reg, file) ==
    LET formatId == detectFormat(file)
    IN  IF formatId = NoFormat THEN Thrown(UnsupportedMessage(file))
        ELSE IF formatId \notin DOMAIN reg.formats
             THEN Returned(NewFormat("PlainTextFormat"))
             ELSE Returned(NewFormat(reg.formats[formatId]))

\* getFormat after its await this.initialize()
getFormat(reg, file) ==
    LET formatId == detectFormat(file)
    IN  IF formatId = NoFormat THEN Thrown(UnsupportedMessage(file))
        ELSE IF formatId \notin DOMAIN reg.formats
             THEN Thrown(NoHandlerMessage(formatId))
             ELSE Returned(NewFormat(reg.formats[formatId]))

\* isSupported after its await this.initialize()
isSupported(reg, file) ==
    LET formatId == detectFormat(file)
    IN  formatId # NoFormat /\ formatId \in DOMAIN reg.formats

FileTypes ==
    {"", "text/plain", "text/markdown", "text/csv", "application/docx",
     "application/octet-stream"}

FileNames ==
    {<<"a">>, <<"a", ".", "t", "x", "t">>, <<"a", ".", "M", "D">>,
     <<"a", ".", "c", "s", "v">>, <<"a", ".", "m", "d", ".", "c", "s", "v">>,
     <<"a", ".", "d", "o", "c", "x">>, <<"a", ".", "z">>, <<"a", ".">>}

Files == [name : FileNames, type : FileTypes]

\* the factories a caller may register besides the built-in ones
Registrations == {<<"csv", "CsvFormat">>, <<"md", "PlainTextFormat">>}

InitRegistry == InitDoc /\ call = NoCall /\ app = AppIdle /\ InitLib

FormatRegistry_register ==
    /\ \E r \in Registrations : registry' = register(registry, r[1], r[2])
    /\ call' = [fn |-> "register"]
    /\ UNCHANGED nonRegistryVars

FormatRegistry_clear ==
    /\ registry' = NoRegistrations
    /\ call' = [fn |-> "clear"]
    /\ UNCHANGED nonRegistryVars

FormatRegistry_getFormat ==
    /\ registry' = initialize(registry)
    /\ \E file \in Files :
          call' = [fn |-> "getFormat", file |-> file,
                   result |-> getFormat(registry', file)]
    /\ UNCHANGED nonRegistryVars

FormatRegistry_isSupported ==
    /\ registry' = initialize(registry)
    /\ \E file \in Files :
          call' = [fn |-> "isSupported", file |-> file,
                   result |-> isSupported(registry', file)]
    /\ UNCHANGED nonRegistryVars

NextRegistry ==
    \/ FormatRegistry_register
    \/ FormatRegistry_clear
    \/ FormatRegistry_getFormat
    \/ FormatRegistry_isSupported

SpecRegistry == InitRegistry /\ [][NextRegistry]_vars

\* the message is made of these parts
Mentions(message, part) == part \in Range(message)

HasHandler(file) ==
    detectFormat(file) # NoFormat /\ detectFormat(file) \in DOMAIN registry.formats

\* C22 as stated: without a handler for the detected format getFormat fails
\* and the error includes the detected format id, or "unknown" when no format
\* was detected; a handler it returns is the one registered for the format
C22_ErrorNamesFormatOrUnknown ==
    (call.fn = "getFormat") =>
        /\ ~HasHandler(call.file) =>
              /\ ~call.result.ok
              /\ Mentions(call.result.error,
                          <<IF detectFormat(call.file) # NoFormat
                            THEN detectFormat(call.file) ELSE "unknown">>)
        /\ call.result.ok =>
              /\ HasHandler(call.file)
              /\ call.result.value =
                    NewFormat(registry.formats[detectFormat(call.file)])

\* C22: without a handler for the detected format getFormat fails; the error
\* includes the detected format id, or when no format was detected the file
\* name and the MIME type, "unknown" for an empty MIME type; a handler it
\* returns is the one registered for the format
C22_ErrorNamesFormatOrFile ==
    (call.fn = "getFormat") =>
        /\ ~HasHandler(call.file) =>
              /\ ~call.result.ok
              /\ IF detectFormat(call.file) # NoFormat
                 THEN Mentions(call.result.error, <<detectFormat(call.file)>>)
                 ELSE /\ Mentions(call.result.error, call.file.name)
                      /\ Mentions(call.result.error,
                                  <<IF call.file.type = "" THEN "unknown"
                                    ELSE call.file.type>>)
        /\ call.result.ok =>
              /\ HasHandler(call.file)
              /\ call.result.value =
                    NewFormat(registry.formats[detectFormat(call.file)])

\* getFormat failed for a Word file, naming docx, with the text handlers
\* registered
C22_Witness ==
    /\ call.fn = "getFormat"
    /\ call.file.type = "application/docx"
    /\ registry.initialized /\ "txt" \in DOMAIN registry.formats
    /\ ~call.result.ok
    /\ Mentions(call.result.error, <<"docx">>)

\* C23: once initialized, a file detected as txt, md or csv is supported and
\* getFormat returns its handler, of formatId txt for txt and md and csv for
\* csv; isSupported is true exactly when getFormat succeeds
C23_TextAndCsvSupported ==
    (call.fn \in {"getFormat", "isSupported"} /\ registry.initialized) =>
        LET formatId == detectFormat(call.file)
        IN  /\ isSupported(registry, call.file) <=> getFormat(registry, call.file).ok
            /\ formatId \in {"txt", "md", "csv"} =>
                  IF call.fn = "isSupported" THEN call.result = TRUE
                  ELSE /\ call.result.ok
                       /\ call.result.value.formatId =
                             (IF formatId = "csv" THEN "csv" ELSE "txt")

----------------------------------------------------------------------------
(* TaskQueue: batch processing of tasks, one processor call at a time *)

PENDING == "pending"
PROCESSING == "processing"
SUCCESS == "success"
FAILED == "failed"
CANCELLED == "cancelled"

\* Math.min, Math.max: NaN when an argument is NaN
MathMin(a, b) == IF isNaN(a) \/ isNaN(b) THEN NaN ELSE IF Lt(a, b) THEN a ELSE b
MathMax(a, b) == IF isNaN(a) \/ isNaN(b) THEN NaN ELSE IF Lt(a, b) THEN b ELSE a

\* the operation begins: nothing invoked yet
Begin(q, op) == [q EXCEPT !.op = op, !.fired = {}]

\* this.tasks.get(taskId): the position of the task, 0 for undefined
TaskIndex(q, taskId) ==
    LET at == {i \in 1..Len(q.tasks) : q.tasks[i].id = taskId}
    IN  IF at = {} THEN 0 ELSE CHOOSE i \in at : TRUE

isComplete(q) ==
    IF Len(q.tasks) = 0 THEN FALSE
    ELSE \A i \in 1..Len(q.tasks) :
            q.tasks[i].status \in {SUCCESS, FAILED, CANCELLED}

\* processNext without the test of isPaused
processNextWhilePaused(q) ==
    IF q.isProcessing \/ ~q.processor THEN q
    ELSE LET pending == {i \in 1..Len(q.tasks) : q.tasks[i].status = PENDING}
         IN  IF pending = {}
             THEN IF isComplete(q) /\ Len(q.tasks) > 0
                  THEN [q EXCEPT !.fired = @ \cup {"onQueueComplete"}]
                  ELSE q
             ELSE LET i == MinOf(pending)
                  IN  [q EXCEPT !.isProcessing = TRUE,
                                !.tasks[i].status = PROCESSING,
                                !.tasks[i].progress = Num(0),
                                !.running = @ \cup {q.tasks[i].id},
                                !.fired = @ \cup {"onTaskStart"}]

\* processNext up to its await: the first pending task in insertion order is
\* marked and handed to the processor
processNext(q) ==
    IF q.isProcessing \/ q.isPaused \/ ~q.processor THEN q
    ELSE LET pending == {i \in 1..Len(q.tasks) : q.tasks[i].status = PENDING}
         IN  IF pending = {}
             THEN IF isComplete(q) /\ Len(q.tasks) > 0
                  THEN [q EXCEPT !.fired = @ \cup {"onQueueComplete"}]
                  ELSE q
             ELSE LET i == MinOf(pending)
                  IN  [q EXCEPT !.isProcessing = TRUE,
                                !.tasks[i].status = PROCESSING,
                                !.tasks[i].progress = Num(0),
                                !.running = @ \cup {q.tasks[i].id},
                                !.fired = @ \cup {"onTaskStart"}]

\* processNext after its await: the task object is marked even when clear()
\* has taken it out of the map, then finally
settle(q, taskId, ok) ==
    LET i == TaskIndex(q, taskId)
        marked == IF i = 0 THEN q
                  ELSE [q EXCEPT !.tasks[i].status = IF ok THEN SUCCESS ELSE FAILED,
                                 !.tasks[i].progress = IF ok THEN Num(100) ELSE Num(0)]
    IN  [marked EXCEPT !.fired = {IF ok THEN "onTaskComplete" ELSE "onTaskError"},
                       !.isProcessing = FALSE,
                       !.running = @ \ {taskId},
                       !.timers = @ + 1]

enqueue(q) ==
    LET task == [id |-> q.nextId, status |-> PENDING, progress |-> Num(0)]
        added == [q EXCEPT !.tasks = Append(@, task), !.nextId = @ + 1]
    IN  IF added.autoStart /\ ~added.isPaused THEN processNext(added) ELSE added

cancel(q, taskId) ==
    LET i == TaskIndex(q, taskId)
    IN  IF i # 0 /\ q.tasks[i].status = PENDING
        THEN [q EXCEPT !.tasks[i].status = CANCELLED]
        ELSE q

cancelAll(q) ==
    [q EXCEPT !.tasks = [i \in 1..Len(q.tasks) |->
                            IF q.tasks[i].status = PENDING
                            THEN [q.tasks[i] EXCEPT !.status = CANCELLED]
                            ELSE q.tasks[i]],
              !.isPaused = TRUE]

retry(q, taskId) ==
    LET i == TaskIndex(q, taskId)
    IN  IF i # 0 /\ q.tasks[i].status = FAILED
        THEN LET reset == [q EXCEPT !.tasks[i].status = PENDING,
                                    !.tasks[i].progress = Num(0)]
             IN  IF ~reset.isPaused THEN processNext(reset) ELSE reset
        ELSE q

clear(q) == [q EXCEPT !.tasks = <<>>, !.isProcessing = FALSE, !.isPaused = FALSE]

updateProgress(q, taskId, progress) ==
    LET i == TaskIndex(q, taskId)
    IN  IF i # 0 /\ q.tasks[i].status = PROCESSING
        THEN [q EXCEPT !.tasks[i].progress = MathMax(Num(0), MathMin(Num(100), progress)),
                       !.fired = @ \cup {"onTaskProgress"}]
        ELSE q

Configs ==
    {DefaultConfig, [maxConcurrent |-> 1, autoStart |-> FALSE],
     [maxConcurrent |-> 2, autoStart |-> TRUE]}

TaskIds == 1..MaxEnqueues

ProgressInputs == {Num(-1), Num(50), Num(101), NaN}

InitQueue == InitDoc /\ call = NoCall /\ app = AppIdle /\ InitLib

\* new TaskQueue(config), before anything is done with the queue
TaskQueue_new ==
    /\ queue = NewTaskQueue(DefaultConfig)
    /\ \E config \in Configs : queue' = NewTaskQueue(config)
    /\ UNCHANGED nonQueueVars

TaskQueue_setProcessor ==
    /\ queue' = [Begin(queue, "setProcessor") EXCEPT !.processor = TRUE]
    /\ UNCHANGED nonQueueVars

TaskQueue_enqueue ==
    /\ queue.nextId <= MaxEnqueues
    /\ queue' = enqueue(Begin(queue, "enqueue"))
    /\ UNCHANGED nonQueueVars

TaskQueue_pause ==
    /\ queue' = [Begin(queue, "pause") EXCEPT !.isPaused = TRUE]
    /\ UNCHANGED nonQueueVars

TaskQueue_resume ==
    /\ queue' = processNext([Begin(queue, "resume") EXCEPT !.isPaused = FALSE])
    /\ UNCHANGED nonQueueVars

TaskQueue_cancel ==
    /\ \E taskId \in TaskIds : queue' = cancel(Begin(queue, "cancel"), taskId)
    /\ UNCHANGED nonQueueVars

TaskQueue_cancelAll ==
    /\ queue' = cancelAll(Begin(queue, "cancelAll"))
    /\ UNCHANGED nonQueueVars

TaskQueue_retry ==
    /\ \E taskId \in TaskIds : queue' = retry(Begin(queue, "retry"), taskId)
    /\ UNCHANGED nonQueueVars

TaskQueue_clear ==
    /\ queue' = clear(Begin(queue, "clear"))
    /\ UNCHANGED nonQueueVars

TaskQueue_updateProgress ==
    /\ \E taskId \in TaskIds, progress \in ProgressInputs :
          queue' = updateProgress(Begin(queue, "updateProgress"), taskId, progress)
    /\ UNCHANGED nonQueueVars

\* the promise of a processor call is fulfilled
Processor_resolves ==
    /\ queue.timers < MaxTimers
    /\ \E taskId \in queue.running :
          queue' = settle(Begin(queue, "resolve"), taskId, TRUE)
    /\ UNCHANGED nonQueueVars

\* the promise of a processor call is rejected
Processor_rejects ==
    /\ queue.timers < MaxTimers
    /\ \E taskId \in queue.running :
          queue' = settle(Begin(queue, "reject"), taskId, FALSE)
    /\ UNCHANGED nonQueueVars

Processor_settles == Processor_resolves \/ Processor_rejects

\* a timer set by finally runs processNext
Timer_processNext ==
    /\ queue.timers > 0
    /\ queue' = processNext([Begin(queue, "timer") EXCEPT !.timers = @ - 1])
    /\ UNCHANGED nonQueueVars

NextQueue ==
    \/ TaskQueue_new
    \/ TaskQueue_setProcessor
    \/ TaskQueue_enqueue
    \/ TaskQueue_pause
    \/ TaskQueue_resume
    \/ TaskQueue_cancel
    \/ TaskQueue_cancelAll
    \/ TaskQueue_retry
    \/ TaskQueue_clear
    \/ TaskQueue_updateProgress
    \/ Processor_resolves
    \/ Processor_rejects
    \/ Timer_processNext

SpecQueue == InitQueue /\ [][NextQueue]_vars

\* every pending promise settles and every timer runs
SpecQueueLive ==
    InitQueue /\ [][NextQueue]_vars
        /\ WF_vars(Processor_settles) /\ WF_vars(Timer_processNext)

StatusOf(q, taskId) ==
    IF TaskIndex(q, taskId) = 0 THEN "none" ELSE q.tasks[TaskIndex(q, taskId)].status

TasksIn(q, status) == {i \in 1..Len(q.tasks) : q.tasks[i].status = status}

\* C24: with maxConcurrent 1 at most one task is processing and at most one
\* processor call is in flight
C24_OneAtATime ==
    queue.maxConcurrent = 1 =>
        /\ Cardinality(TasksIn(queue, PROCESSING)) <= 1
        /\ Cardinality(queue.running) <= 1


\* C25: onQueueComplete is invoked only when no task is pending or
\* processing, and whenever all tasks of a queue with a processor and
\* autoStart have finished it is eventually invoked, unless the queue gets
\* new work
C25_CompletionNotified ==
    /\ []("onQueueComplete" \in queue.fired => isComplete(queue))
    /\ []((isComplete(queue) /\ queue.processor /\ queue.autoStart)
             => <>("onQueueComplete" \in queue.fired \/ ~isComplete(queue)))

\* C26: with a processor set, autoStart on and the queue not paused, a
\* pending task (enqueued or retried) eventually reaches success, failed or
\* cancelled, unless the queue is paused or cleared first or a failed task
\* ahead of it is retried
C26_PendingEventuallySettled ==
    \A taskId \in TaskIds :
        []((StatusOf(queue, taskId) = PENDING /\ queue.processor
               /\ queue.autoStart /\ ~queue.isPaused)
              => <>(StatusOf(queue, taskId) \in {SUCCESS, FAILED, CANCELLED, "none"}
                       \/ queue.isPaused \/ queue.op = "retry"))

\* C27: while isPaused is set, no operation but resume and clear moves a
\* task from pending to processing or calls the processor, and a processing
\* task keeps its processor call until it ends in success or failed
C27_PausedStartsNothing ==
    [][(queue.isPaused /\ queue'.op \notin {"resume", "clear"}) =>
          /\ queue'.running \subseteq queue.running
          /\ \A taskId \in TaskIds :
                /\ StatusOf(queue, taskId) = PENDING
                      => StatusOf(queue', taskId) # PROCESSING
                /\ StatusOf(queue, taskId) = PROCESSING
                      => /\ StatusOf(queue', taskId) \in {PROCESSING, SUCCESS, FAILED}
                         /\ StatusOf(queue', taskId) = PROCESSING
                               => taskId \in queue'.running]_vars

\* a timer ran processNext on a paused queue with a processor, a pending
\* task and nothing processing, and the task is still pending
C27_Witness ==
    /\ queue.isPaused /\ queue.op = "timer"
    /\ queue.processor /\ ~queue.isProcessing
    /\ TasksIn(queue, PENDING) # {}
    /\ TasksIn(queue, PROCESSING) = {}

AllowedTransitions ==
    {<<PENDING, PROCESSING>>, <<PROCESSING, SUCCESS>>, <<PROCESSING, FAILED>>,
     <<PENDING, CANCELLED>>, <<FAILED, PENDING>>}

\* C28: a task's status changes only along the allowed transitions (retry
\* goes from failed through pending to processing at once when the processor
\* is free), cancel and cancelAll change pending tasks only, the processor is
\* called only for a task that is pending then, never for a cancelled or
\* finished one, progress is within 0..100 and 100 on success
C28_StatusLifecycle ==
    /\ [](\A i \in 1..Len(queue.tasks) :
             /\ Le(Num(0), queue.tasks[i].progress)
             /\ Le(queue.tasks[i].progress, Num(100))
             /\ queue.tasks[i].status = SUCCESS
                   => queue.tasks[i].progress = Num(100))
    /\ [][\A taskId \in TaskIds :
             LET before == StatusOf(queue, taskId)
                 after == StatusOf(queue', taskId)
             IN  /\ (before # after /\ before # "none" /\ after # "none")
                       => \/ <<before, after>> \in AllowedTransitions
                          \/ /\ queue'.op = "retry"
                             /\ <<before, after>> = <<FAILED, PROCESSING>>
                 /\ (queue'.op \in {"cancel", "cancelAll"} /\ before # after)
                       => before = PENDING
                 /\ taskId \in queue'.running \ queue.running
                       => /\ before \in {PENDING, FAILED, "none"}
                          /\ after = PROCESSING]_vars

----------------------------------------------------------------------------
(* CustomPatternRegistry and PatternValidator *)

\* new RegExp(pattern) over the characters a . * + ( ) and newline: groups
\* are closed, a quantifier follows an atom or a group
RECURSIVE CompilesFrom(_, _, _, _)
CompilesFrom(p, k, depth, canRepeat) ==
    IF k > Len(p) THEN depth = 0
    ELSE CASE p[k] = "(" -> CompilesFrom(p, k + 1, depth + 1, FALSE)
           [] p[k] = ")" -> depth > 0 /\ CompilesFrom(p, k + 1, depth - 1, TRUE)
           [] p[k] \in {"*", "+"} -> canRepeat /\ CompilesFrom(p, k + 1, depth, FALSE)
           [] OTHER -> CompilesFrom(p, k + 1, depth, TRUE)

Compiles(p) == CompilesFrom(p, 1, 0, FALSE)

\* /^\.\*$/, /^\.\+$/, /^\.{1,2}\*$/
isTooGreedy(pattern) ==
    pattern \in {<<".", "*">>, <<".", "+">>, <<".", ".", "*">>}

Valid == [valid |-> TRUE, error |-> "none"]
Invalid(error) == [valid |-> FALSE, error |-> error]

validate(pattern) ==
    IF pattern = <<>> \/ Len(Trim(pattern)) = 0
    THEN Invalid("Pattern cannot be empty")
    ELSE IF Len(pattern) < 2
    THEN Invalid("Pattern too short (minimum 2 characters)")
    ELSE IF ~Compiles(pattern) THEN Invalid("Invalid regex")
    ELSE IF isTooGreedy(pattern)
    THEN Invalid("Pattern is too greedy and may match too much text")
    ELSE Valid

\* savePatterns: JSON.stringify of the patterns held; the fields kept here
\* are strings and booleans, which JSON.parse gives back as they were
savePatterns(r) == [r EXCEPT !.stored = Item(r.held)]

\* loadPatterns into the empty map of a new registry
loadPatterns(r) ==
    IF ~r.stored.present THEN [r EXCEPT !.held = <<>>]
    ELSE [r EXCEPT !.held =
            SelectSeq(r.stored.items, LAMBDA p : validate(p.regex).valid)]

PatternIndex(r, id) ==
    LET at == {i \in 1..Len(r.held) : r.held[i].id = id}
    IN  IF at = {} THEN 0 ELSE CHOOSE i \in at : TRUE

Started(r, op) == [r EXCEPT !.op = op, !.error = "none"]
Throws(r, error) == [r EXCEPT !.error = error]

addPattern(r, pattern) ==
    LET validation == validate(pattern.regex)
    IN  IF ~validation.valid THEN Throws(r, validation.error)
        ELSE savePatterns(
                [r EXCEPT !.held = Append(@, [id |-> r.nextId, regex |-> pattern.regex,
                                              enabled |-> pattern.enabled]),
                          !.nextId = @ + 1])

\* Object.assign(pattern, updates): the properties the updates have
Assign(pattern, updates) ==
    [pattern EXCEPT
        !.regex = IF updates.hasRegex THEN updates.regex ELSE @,
        !.enabled = IF updates.hasEnabled THEN updates.enabled ELSE @]

\* if (updates.regex): an empty string is falsy
updatePattern(r, id, updates) ==
    LET i == PatternIndex(r, id)
    IN  IF i = 0 THEN Throws(r, "Pattern not found")
        ELSE IF updates.hasRegex /\ updates.regex # <<>>
                /\ ~validate(updates.regex).valid
        THEN Throws(r, validate(updates.regex).error)
        ELSE savePatterns([r EXCEPT !.held[i] = Assign(@, updates)])

deletePattern(r, id) ==
    LET i == PatternIndex(r, id)
    IN  IF i = 0 THEN Throws(r, "Pattern not found")
        ELSE savePatterns([r EXCEPT !.held =
                SubSeq(r.held, 1, i - 1) \o SubSeq(r.held, i + 1, Len(r.held))])

togglePattern(r, id) ==
    LET i == PatternIndex(r, id)
    IN  IF i = 0 THEN r
        ELSE savePatterns([r EXCEPT !.held[i].enabled = ~@])

\* the loop of importPatterns over the parsed array
RECURSIVE ImportEach(_, _)
ImportEach(r, imported) ==
    IF imported = <<>> THEN r
    ELSE LET pattern == Head(imported)
             next == IF validate(pattern.regex).valid
                     THEN [r EXCEPT !.held = Append(@, [id |-> r.nextId,
                                                        regex |-> pattern.regex,
                                                        enabled |-> pattern.enabled]),
                                    !.nextId = @ + 1]
                     ELSE r
         IN  ImportEach(next, Tail(imported))

\* json is what JSON.parse makes of it: an array of patterns, or a failure
InvalidJson == [ok |-> FALSE, value |-> <<>>]
Json(value) == [ok |-> TRUE, value |-> value]

importPatterns(r, json) ==
    IF ~json.ok THEN Throws(r, "Invalid JSON format")
    ELSE savePatterns(ImportEach(r, json.value))

clearAll(r) == savePatterns([r EXCEPT !.held = <<>>])

RegexChars == {"a", ".", "*", "+", "(", ")", NL}

Regexes == SeqsUpTo(RegexChars, MaxRegexLen)

NewPatterns == [regex : Regexes, enabled : BOOLEAN]

PatternUpdates ==
    [hasRegex : {TRUE}, regex : Regexes, hasEnabled : {FALSE}, enabled : {FALSE}]
        \cup [hasRegex : {FALSE}, regex : {<<>>}, hasEnabled : {TRUE}, enabled : BOOLEAN]

PatternIds == 1..MaxPatterns

InitPatterns == InitDoc /\ call = NoCall /\ app = AppIdle /\ InitLib

CustomPatternRegistry_addPattern ==
    /\ patterns.nextId <= MaxPatterns
    /\ \E pattern \in NewPatterns :
          patterns' = addPattern(Started(patterns, "addPattern"), pattern)
    /\ UNCHANGED nonPatternVars

CustomPatternRegistry_updatePattern ==
    /\ \E id \in PatternIds, updates \in PatternUpdates :
          patterns' = updatePattern(Started(patterns, "updatePattern"), id, updates)
    /\ UNCHANGED nonPatternVars

CustomPatternRegistry_deletePattern ==
    /\ \E id \in PatternIds :
          patterns' = deletePattern(Started(patterns, "deletePattern"), id)
    /\ UNCHANGED nonPatternVars

CustomPatternRegistry_togglePattern ==
    /\ \E id \in PatternIds :
          patterns' = togglePattern(Started(patterns, "togglePattern"), id)
    /\ UNCHANGED nonPatternVars

CustomPatternRegistry_importPatterns ==
    /\ patterns.nextId <= MaxPatterns
    /\ \E json \in {InvalidJson} \cup {Json(<<p>>) : p \in NewPatterns} :
          patterns' = importPatterns(Started(patterns, "importPatterns"), json)
    /\ UNCHANGED nonPatternVars

CustomPatternRegistry_clearAll ==
    /\ patterns' = clearAll(Started(patterns, "clearAll"))
    /\ UNCHANGED nonPatternVars

\* the page is loaded again: new CustomPatternRegistry()
CustomPatternRegistry_new ==
    /\ patterns' = loadPatterns(Started(patterns, "new"))
    /\ UNCHANGED nonPatternVars

NextPatterns ==
    \/ CustomPatternRegistry_addPattern
    \/ CustomPatternRegistry_updatePattern
    \/ CustomPatternRegistry_deletePattern
    \/ CustomPatternRegistry_togglePattern
    \/ CustomPatternRegistry_importPatterns
    \/ CustomPatternRegistry_clearAll
    \/ CustomPatternRegistry_new

SpecPatterns == InitPatterns /\ [][NextPatterns]_vars

\* C29: every pattern held has a regex that passes validate, and an
\* addPattern or updatePattern that throws leaves the patterns held and the
\* stored copy as they were
C29_HeldPatternsValid ==
    /\ [](\A i \in 1..Len(patterns.held) : validate(patterns.held[i].regex).valid)
    /\ [][(patterns'.op \in {"addPattern", "updatePattern"}
              /\ patterns'.error # "none")
             => /\ patterns'.held = patterns.held
                /\ patterns'.stored = patterns.stored]_vars

----------------------------------------------------------------------------
(* DocumentFormat.mergeOverlappingBoxes: the geometry of the boxes *)

Box(x, y, w, h) == [x |-> x, y |-> y, w |-> w, h |-> h]

\* [...boxes].sort((a, b) => a.x - b.x): stable, ascending by x
RECURSIVE InsertByX(_, _)
InsertByX(sorted, b) ==
    IF sorted = <<>> THEN <<b>>
    ELSE IF Head(sorted).x <= b.x
         THEN <<Head(sorted)>> \o InsertByX(Tail(sorted), b)
         ELSE <<b>> \o sorted

RECURSIVE SortByX(_, _)
SortByX(acc, bs) ==
    IF bs = <<>> THEN acc ELSE SortByX(InsertByX(acc, Head(bs)), Tail(bs))

boxesOverlap(a, b) ==
    ~(a.x + a.w < b.x \/ b.x + b.w < a.x \/ a.y + a.h < b.y \/ b.y + b.h < a.y)

mergeTwoBoxes(a, b) ==
    LET x1 == Min(a.x, b.x)
        y1 == Min(a.y, b.y)
        x2 == Max(a.x + a.w, b.x + b.w)
        y2 == Max(a.y + a.h, b.y + b.h)
    IN  Box(x1, y1, x2 - x1, y2 - y1)

\* the loop from i on, with the boxes pushed so far and the current box
RECURSIVE MergeLoop(_, _, _, _)
MergeLoop(sorted, i, merged, current) ==
    IF i > Len(sorted) THEN Append(merged, current)
    ELSE IF boxesOverlap(current, sorted[i])
         THEN MergeLoop(sorted, i + 1, merged, mergeTwoBoxes(current, sorted[i]))
         ELSE MergeLoop(sorted, i + 1, Append(merged, current), sorted[i])

mergeOverlappingBoxes(boxes) ==
    IF Len(boxes) = 0 THEN <<>>
    ELSE LET sorted == SortByX(<<>>, boxes)
         IN  MergeLoop(sorted, 2, <<>>, sorted[1])

\* boxes of height 1 in two rows that do not touch, narrow and wide
MergeBoxes ==
    {Box(x, y, w, 1) : x \in 0..MaxBoxX, y \in {0, 2}, w \in {1, 3}}

InitMergeBoxes == InitDoc /\ call = NoCall /\ app = AppIdle /\ InitLib

Call_mergeOverlappingBoxes ==
    /\ call = NoCall
    /\ \E boxes \in SeqsUpTo(MergeBoxes, MaxMergeBoxes) :
          call' = [fn |-> "mergeOverlappingBoxes", boxes |-> boxes,
                   result |-> mergeOverlappingBoxes(boxes)]
    /\ UNCHANGED nonPdfVars

NextMergeBoxes == Call_mergeOverlappingBoxes

SpecMergeBoxes == InitMergeBoxes /\ [][NextMergeBoxes]_vars

\* the two boxes share an area
ShareArea(a, b) ==
    /\ a.x < b.x + b.w /\ b.x < a.x + a.w
    /\ a.y < b.y + b.h /\ b.y < a.y + a.h

Covers(a, b) ==
    /\ a.x <= b.x /\ b.x + b.w <= a.x + a.w
    /\ a.y <= b.y /\ b.y + b.h <= a.y + a.h

\* C30: no two boxes of the result share an area, and every input box lies
\* within some box of the result
C30_MergedBoxesDisjointAndCover ==
    (call # NoCall /\ call.fn = "mergeOverlappingBoxes") =>
        /\ \A i, j \in 1..Len(call.result) :
              i # j => ~ShareArea(call.result[i], call.result[j])
        /\ \A i \in 1..Len(call.boxes) :
              \E j \in 1..Len(call.result) : Covers(call.result[j], call.boxes[i])

----------------------------------------------------------------------------
(* Application shell: background detection over the pages of a document *)

\* the completion handler commits without looking at the generation
CommitAlways(pass) == TRUE

\* a completed pass may commit only under the generation it started in
CommitAllowed(pass) == pass.gen = app.generation

InitApp == InitDoc /\ call = NoCall /\ app = AppIdle /\ InitLib

\* a new file is loaded: a new generation, the detections of the old one go
App_loadFile ==
    /\ app.generation < MaxLoads
    /\ app' = [app EXCEPT !.generation = app.generation + 1,
                          !.file = app.generation + 1,
                          !.detections = {}]
    /\ UNCHANGED nonAppVars

\* the document is reset
App_handleReset ==
    /\ app.file # NoFile
    /\ app.generation < MaxLoads
    /\ app' = [app EXCEPT !.generation = app.generation + 1,
                          !.file = NoFile,
                          !.detections = {}]
    /\ UNCHANGED nonAppVars

\* the background pass over the pages of the current document starts
App_detectPIIOnAllPages ==
    /\ app.file # NoFile
    /\ \A pass \in app.passes : pass.gen # app.generation
    /\ \A d \in app.detections : d.gen # app.generation
    /\ app' = [app EXCEPT !.passes = app.passes \cup
                    {[gen |-> app.generation, file |-> app.file, page |-> 0]}]
    /\ UNCHANGED nonAppVars

\* the detection of one page of a pass in flight completes; pages go in order
App_pageDetected ==
    /\ \E pass \in app.passes :
          IF CommitAllowed(pass)
          THEN app' = [app EXCEPT
                    !.detections = app.detections \cup
                        {[file |-> pass.file, page |-> pass.page, gen |-> pass.gen]},
                    !.passes = (app.passes \ {pass}) \cup
                        (IF pass.page + 1 < MaxPages
                         THEN {[pass EXCEPT !.page = pass.page + 1]} ELSE {})]
          ELSE app' = [app EXCEPT !.passes = app.passes \ {pass},
                                  !.discarded = app.discarded + 1]
    /\ UNCHANGED nonAppVars

NextApp ==
    \/ App_loadFile
    \/ App_handleReset
    \/ App_detectPIIOnAllPages
    \/ App_pageDetected

SpecApp == InitApp /\ [][NextApp]_vars

\* C8: the results of a pass that a file load or reset has overtaken are
\* never committed: every committed detection is of the current document
\* and generation.
C8_StaleResultsDiscarded ==
    \A d \in app.detections : d.gen = app.generation /\ d.file = app.file

\* an overtaken pass completed and was discarded, the newer document has results
C8_Witness ==
    /\ app.discarded > 0
    /\ app.detections # {}
    /\ app.file # NoFile

====
